---- MODULE Spec2Model ----
(***************************************************************************)
(* Analytics pipeline of the link-aggregator backend: the ingest path      *)
(* (TrackingService and the /api/track routes), the chain adapter          *)
(* (SuiService), the daily Aggregator, the orphan-session closure and the  *)
(* WebSocket fan-out, over the Store's tables.                             *)
(*                                                                         *)
(* Every await of the source is one atomic step of a call; the steps of    *)
(* different calls interleave freely.                                      *)
(***************************************************************************)
EXTENDS Integers, Sequences, FiniteSets, TLC

\* ------------------------------------------------------------- bounds
\* number of HTTP ingest calls of one run
MaxCalls == 3
\* number of store operations that may fail in one run
MaxFailures == 1
\* number of events of one batch request
MaxBatch == 2
\* number of HTTP calls of a run of the routes
MaxRouteCalls == 2
\* number of events ingested in a run of the Aggregator
MaxAggEvents == 2
\* number of consecutive Aggregator runs on the same data
MaxAggRuns == 2
\* last day of a run of the Aggregator, day 0 being the first
MaxDay == 2
\* number of HTTP calls in a run of the realtime channel
MaxRealtimeCalls == 1
\* number of latest messages kept of those emitted to a socket
MaxOutbox == 2
\* number of getProfileAnalytics calls in a run of the reports
MaxReports == 1
\* number of events ingested in a run of the reports
MaxReportEvents == 1
\* number of events tracked in a run of the session lifecycle
MaxSessionEvents == 2
\* last reading of the clock to which time passes between calls, in
\* milliseconds: a day and two seconds
MaxNow == 86402000
\* the part of a day, in milliseconds, in which the calls are made
MaxElapsed == 2000
\* number of GET /stream/:profileId calls
MaxStreams == 2
\* number of data frames a stream writes
MaxFrames == 2
\* number of Profile objects alive at a time
MaxProfiles == 2
\* number of owner-gated mutations that succeed
MaxMutations == 2
\* number of ProfilePicture objects minted
MaxNfts == 1
\* number of track_view calls on a profile
MaxViews == 2
\* number of days the chain clock advances
MaxChainDays == 1
\* number of events of a visit
MaxVisitEvents == 3

\* ---------------------------------------------------------- constants
MsPerSecond == 1000
DayMs == 86400000

\* SQL NULL / JavaScript undefined
NULL == "<null>"
\* an absent timestamp in a request body
NoTime == -1

Profiles == {"P1"}
\* session identifiers a client can send; minted ones are "uuid-<n>"
ClientSessions == {"S"}
LinkIndexes == {0}
Sockets == {"k1", "k2"}

\* ------------------------------------------------------------ helpers
\* a Float column holds the exact quotient num / den; SQL NULL has den = 0
Ratio(num, den) == [num |-> num, den |-> den]
NullRatio == Ratio(0, 0)

RECURSIVE SetSum(_, _)
SetSum(S, f) ==
  IF S = {} THEN 0
  ELSE LET x == CHOOSE y \in S : TRUE IN f[x] + SetSum(S \ {x}, f)

\* uuidv4(): a fresh identifier, distinct from every client-chosen one
Uuid(n) == "uuid-" \o ToString(n)

\* geoip.lookup(ip): the embedded table, reduced to five kinds of address
\* (two of them in towns of the same name in different regions of a country)
GeoLookup(ip) ==
  CASE ip = "ip-city"   -> <<[country |-> "TR", city |-> "Izmir", region |-> "35"]>>
    [] ip = "ip-nocity" -> <<[country |-> "TR", city |-> "", region |-> ""]>>
    [] ip = "ip-il"     -> <<[country |-> "US", city |-> "Springfield", region |-> "IL"]>>
    [] ip = "ip-ma"     -> <<[country |-> "US", city |-> "Springfield", region |-> "MA"]>>
    [] OTHER            -> <<>>

\* TrackingService.getGeoData
getGeoData(ip) ==
  IF ip = NULL \/ ip = "" THEN [country |-> NULL, city |-> NULL, region |-> NULL]
  ELSE LET geo == GeoLookup(ip) IN
       IF geo = <<>> THEN [country |-> NULL, city |-> NULL, region |-> NULL]
       ELSE geo[1]

\* new UAParser(ua).getResult(), reduced to three kinds of user agent
UAParse(ua) ==
  CASE ua = "ua-phone"  -> [device |-> "mobile", browser |-> "Safari", os |-> "iOS"]
    [] ua = "ua-laptop" -> [device |-> NULL, browser |-> "Chrome", os |-> "Windows"]
    [] OTHER            -> [device |-> NULL, browser |-> NULL, os |-> NULL]

\* TrackingService.getDeviceData
getDeviceData(ua) ==
  IF ua = NULL \/ ua = "" THEN [deviceType |-> NULL, browser |-> NULL, os |-> NULL]
  ELSE LET result == UAParse(ua) IN
       [deviceType |-> IF result.device = "mobile" THEN "mobile"
                       ELSE IF result.device = "tablet" THEN "tablet"
                       ELSE "desktop",
        browser |-> result.browser,
        os |-> result.os]

\* -------------------------------------------------------------- state
VARIABLES
  profileView,    \* Store: set of ProfileView rows
  linkClick,      \* Store: set of LinkClick rows
  session,        \* Store: Session rows by their unique sessionId
  dailyStats,     \* Store: DailyStats rows by <<profileId, date>>
  linkStats,      \* Store: LinkStats rows by <<profileId, linkIndex, date>>
  geoStats,       \* Store: set of GeoStats rows
  deviceStats,    \* Store: set of DeviceStats rows
  referrerStats,  \* Store: ReferrerStats rows by <<profileId, referrer, date>>
  nextId,         \* next auto id of the Store, next uuid of uuidv4
  now,            \* the wall clock, in milliseconds
  call,           \* the HTTP calls: position, request, locals, response
  failures,       \* number of store operations that have failed
  chainDown,      \* calls whose chain probe met an RPC error
  rooms,          \* socket.io rooms: profileId -> set of sockets
  outbox,         \* the latest messages emitted to each socket, in order
  connectedClients, \* websocket: ClientData by socket id
  aggRuns,        \* Aggregator runs since the raw tables or the day changed
  aggDays,        \* days whose rollups were computed after their last raw event
  tz,             \* offset of the process's local time from UTC, in milliseconds
  cache,          \* Redis: the cached reports by key
  report,         \* the getProfileAnalytics calls: position, arguments, query results
  stream,         \* the GET /stream/:profileId calls: position, timer, frames
  registry,       \* Move: the shared ProfileRegistry
  profiles,       \* Move: the live Profile objects by object id, with their holder
  nfts,           \* Move: the ProfilePicture objects minted, in order
  mutations,      \* Move: number of owner-gated mutations that have succeeded
  lastTx          \* Move: the outcome of the latest transaction

rawVars == <<profileView, linkClick, session>>
rollupVars == <<dailyStats, linkStats, geoStats, deviceStats, referrerStats>>
storeVars == <<rawVars, rollupVars, nextId>>
socketVars == <<rooms, outbox, connectedClients>>
aggVars == <<aggRuns, aggDays>>
reportVars == <<cache, report>>
chainVars == <<registry, profiles, nfts, mutations, lastTx>>
serviceVars == <<tz, reportVars, stream, chainVars>>
vars == <<storeVars, now, call, failures, chainDown, serviceVars, socketVars, aggVars>>

Calls == 1..MaxCalls

\* setHours(0, 0, 0, 0) and moment().startOf('day'): the instant of the
\* latest midnight of the process's local time
StartOfDay(t) == t - ((t + tz) % DayMs)

\* the midnight-UTC truncation of an instant
UtcMidnight(t) == t - (t % DayMs)

\* a call that has not arrived yet
IdleCall ==
  [pc |-> "idle", kind |-> NULL, profileId |-> NULL, sessionId |-> NULL,
   linkIndex |-> 0, linkTitle |-> NULL, linkUrl |-> NULL,
   visitorIp |-> NULL, userAgent |-> NULL, referrer |-> NULL, timestamp |-> NoTime,
   views |-> <<>>, sid |-> NULL, today |-> 0, existing |-> <<>>, rowId |-> 0,
   caught |-> 0, status |-> 0, respId |-> 0, respSessionId |-> NULL,
   audience |-> {}]

\* the request bodies of POST /view, /click and /batch/views with the headers
\* the route reads (x-forwarded-for, user-agent)
ViewRequest(profileId, sessionId, ip, ua, referrer, timestamp) ==
  [IdleCall EXCEPT !.kind = "view", !.profileId = profileId, !.sessionId = sessionId,
                   !.visitorIp = ip, !.userAgent = ua, !.referrer = referrer,
                   !.timestamp = timestamp]

ClickRequest(profileId, linkIndex, linkTitle, linkUrl, sessionId, ip, ua, referrer, timestamp) ==
  [ViewRequest(profileId, sessionId, ip, ua, referrer, timestamp)
     EXCEPT !.kind = "click", !.linkIndex = linkIndex, !.linkTitle = linkTitle,
            !.linkUrl = linkUrl]

BatchRequest(views, ip, ua) ==
  [IdleCall EXCEPT !.kind = "batch", !.views = views, !.visitorIp = ip, !.userAgent = ua]

\* ------------------------------------------------- the chain adapter
\* SuiService.getProfile: the object's fields, or null when the object is
\* missing and also when the RPC call throws (the catch returns null)
getProfile(outcome) ==
  CASE outcome = "found"     -> <<"profile">>
    [] outcome = "absent"    -> <<>>
    [] outcome = "rpc-error" -> <<>>

\* SuiService.profileExists
profileExists(outcome) == getProfile(outcome) # <<>>

\* ------------------------------------------------------- Store rows
\* the data of prisma.profileView.create in trackProfileView and of each
\* element of processedViews in batchTrackViews
ViewRow(id, d, sid, t) ==
  LET geoData == getGeoData(d.visitorIp)
      deviceData == getDeviceData(d.userAgent)
  IN [id |-> id, profileId |-> d.profileId, sessionId |-> sid,
      referrer |-> d.referrer,
      country |-> geoData.country, city |-> geoData.city, region |-> geoData.region,
      deviceType |-> deviceData.deviceType, browser |-> deviceData.browser,
      os |-> deviceData.os,
      timestamp |-> IF d.timestamp = NoTime THEN t ELSE d.timestamp]

\* the data of prisma.linkClick.create in trackLinkClick
ClickRow(id, d, sid, t) ==
  LET v == ViewRow(id, d, sid, t)
  IN [id |-> v.id, profileId |-> v.profileId, sessionId |-> v.sessionId,
      referrer |-> v.referrer, country |-> v.country, city |-> v.city,
      region |-> v.region, deviceType |-> v.deviceType, browser |-> v.browser,
      os |-> v.os, timestamp |-> v.timestamp,
      linkIndex |-> d.linkIndex, linkTitle |-> d.linkTitle, linkUrl |-> d.linkUrl]

\* data.sessionId || this.generateSessionId()
ResolveSessionId(sessionId, n) ==
  IF sessionId = NULL \/ sessionId = "" THEN Uuid(n) ELSE sessionId

\* the data of prisma.session.create in updateSession (the geo and device
\* columns of the Session row are written once and never read: left out)
NewSession(d, isClick, t) ==
  [profileId |-> d.profileId, startTime |-> t, endTime |-> NoTime,
   duration |-> NoTime,
   pageViews |-> IF isClick THEN 0 ELSE 1,
   linkClicks |-> IF isClick THEN 1 ELSE 0]

\* an update that counts every event as a page view
TouchSessionAsView(row, existing, isClick, tEnd, tDur) ==
  [row EXCEPT !.endTime = tEnd,
              !.duration = (tDur - existing.startTime) \div MsPerSecond,
              !.pageViews = existing.pageViews + 1]

\* the data of prisma.session.update in updateSession, applied to the row
\* `row` of the Store; `existing` is what findUnique returned earlier, tEnd
\* and tDur are its two readings of the clock
TouchSession(row, existing, isClick, tEnd, tDur) ==
  [row EXCEPT !.endTime = tEnd,
              !.duration = (tDur - existing.startTime) \div MsPerSecond,
              !.pageViews = IF isClick THEN existing.pageViews ELSE existing.pageViews + 1,
              !.linkClicks = IF isClick THEN existing.linkClicks + 1 ELSE existing.linkClicks]

\* the data of prisma.dailyStats.create in updateDailyStats
NewDailyStats(type) ==
  [views |-> IF type = "view" THEN 1 ELSE 0,
   clicks |-> IF type = "click" THEN 1 ELSE 0,
   uniqueViews |-> 0, uniqueClicks |-> 0, sessions |-> 0,
   avgDuration |-> NullRatio, bounceRate |-> NullRatio]

\* an update that would also count the event as a session of the day
BumpDailyStatsAndSessions(row, existingStats, type) ==
  [row EXCEPT !.views = IF type = "view" THEN existingStats.views + 1 ELSE existingStats.views,
              !.clicks = IF type = "click" THEN existingStats.clicks + 1 ELSE existingStats.clicks,
              !.sessions = existingStats.sessions + 1]

\* the data of prisma.dailyStats.update in updateDailyStats
BumpDailyStats(row, existingStats, type) ==
  [row EXCEPT !.views = IF type = "view" THEN existingStats.views + 1 ELSE existingStats.views,
              !.clicks = IF type = "click" THEN existingStats.clicks + 1 ELSE existingStats.clicks]

\* the data of prisma.linkStats.create in updateLinkStats
NewLinkStats(linkTitle, linkUrl) ==
  [linkTitle |-> linkTitle, linkUrl |-> linkUrl, clicks |-> 1, uniqueClicks |-> 0,
   ctr |-> 0]

\* an update that would also take the title and url away from the row
BumpLinkStatsAndTitle(row, existingStats) ==
  [row EXCEPT !.clicks = existingStats.clicks + 1, !.linkTitle = "", !.linkUrl = ""]

\* the data of prisma.linkStats.update in updateLinkStats
BumpLinkStats(row, existingStats) ==
  [row EXCEPT !.clicks = existingStats.clicks + 1]

\* linkTitle || '' of trackLinkClick
OrEmpty(s) == IF s = NULL THEN "" ELSE s

\* ------------------------------------------------- the ingest routes
\* a store operation may fail (connection lost, timeout, constraint)
MayFail == failures < MaxFailures

\* the route's res.json after the tracking call has returned an id:
\* sessionId is read from trackingData, the request's own field
Respond200(c) ==
  [c EXCEPT !.pc = "done", !.status = 200, !.respId = c.rowId,
            !.respSessionId = c.sessionId]

\* the route's catch: 500 Internal Server Error
Respond500(c) == [c EXCEPT !.pc = "done", !.status = 500]

\* the catch of updateSession, updateDailyStats and updateLinkStats:
\* logger.error, and the helper returns normally
Caught(c, error) == IF error THEN [c EXCEPT !.caught = @ + 1] ELSE c

\* where trackProfileView / trackLinkClick go once updateSession is over
AfterSession(c) == [c EXCEPT !.pc = "daily-read", !.existing = <<>>]

\* where they go once updateDailyStats is over
AfterDaily(c) ==
  IF c.kind = "click" THEN [c EXCEPT !.pc = "link-read", !.existing = <<>>]
  ELSE Respond200([c EXCEPT !.existing = <<>>])

\* once updateLinkStats is over
AfterLink(c) == Respond200([c EXCEPT !.existing = <<>>])

\* a request reaches the router; calls arrive in the order of their numbers
Arrive(p, request) ==
  /\ call[p].pc = "idle"
  /\ IF p = 1 THEN TRUE ELSE call[p - 1].pc # "idle"
  /\ call' = [call EXCEPT ![p] =
       [request EXCEPT !.pc = IF request.kind = "batch" THEN "batch" ELSE "probe"]]
  /\ UNCHANGED <<storeVars, now, failures, chainDown, serviceVars, socketVars, aggVars>>

\* POST /view and /click: await suiService.profileExists(profileId)
Probe(p, outcome) ==
  /\ call[p].pc = "probe"
  /\ call' = [call EXCEPT ![p] =
       IF profileExists(outcome) THEN [@ EXCEPT !.pc = "create"]
       ELSE [@ EXCEPT !.pc = "done", !.status = 404]]
  /\ chainDown' = IF outcome = "rpc-error" THEN chainDown \cup {p} ELSE chainDown
  /\ UNCHANGED <<storeVars, now, failures, serviceVars, socketVars, aggVars>>

\* trackProfileView / trackLinkClick up to the end of
\* await prisma.profileView.create / prisma.linkClick.create
CreateRow(p, ok) ==
  LET c == call[p]
      sid == ResolveSessionId(c.sessionId, nextId)
      id == nextId + 1
  IN /\ c.pc = "create"
     /\ nextId' = nextId + 2
     /\ IF ok
        THEN /\ IF c.kind = "click"
                THEN /\ linkClick' = linkClick \cup {ClickRow(id, c, sid, now)}
                     /\ UNCHANGED profileView
                ELSE /\ profileView' = profileView \cup {ViewRow(id, c, sid, now)}
                     /\ UNCHANGED linkClick
             /\ call' = [call EXCEPT ![p] =
                  [c EXCEPT !.pc = "session-read", !.sid = sid, !.rowId = id]]
             /\ UNCHANGED failures
        ELSE /\ MayFail
             /\ failures' = failures + 1
             /\ call' = [call EXCEPT ![p] = Respond500([c EXCEPT !.sid = sid])]
             /\ UNCHANGED <<profileView, linkClick>>
     /\ UNCHANGED <<session, rollupVars, now, chainDown, serviceVars, socketVars, aggVars>>

\* updateSession: await prisma.session.findUnique
SessionRead(p, ok) ==
  LET c == call[p]
  IN /\ c.pc = "session-read"
     /\ IF ok
        THEN /\ call' = [call EXCEPT ![p] =
                  [c EXCEPT !.pc = "session-write",
                            !.existing = IF c.sid \in DOMAIN session
                                         THEN <<session[c.sid]>> ELSE <<>>]]
             /\ UNCHANGED failures
        ELSE /\ MayFail
             /\ failures' = failures + 1
             /\ call' = [call EXCEPT ![p] = AfterSession(Caught(c, TRUE))]
     /\ UNCHANGED <<storeVars, now, chainDown, serviceVars, socketVars, aggVars>>

\* updateSession: await prisma.session.update / prisma.session.create; tEnd
\* and tDur are the two new Date() of the update's data. An error (a failed
\* operation, a vanished row, a second row for the unique sessionId) is
\* caught and logged by updateSession.
SessionWrite(p, ok, tEnd, tDur) ==
  LET c == call[p]
      isClick == c.kind = "click"
  IN /\ c.pc = "session-write"
     /\ IF ~ok
        THEN /\ MayFail
             /\ failures' = failures + 1
             /\ UNCHANGED session
        ELSE /\ UNCHANGED failures
             /\ IF c.existing # <<>>
                THEN IF c.sid \in DOMAIN session
                     THEN session' = [session EXCEPT ![c.sid] =
                            TouchSession(@, c.existing[1], isClick, tEnd, tDur)]
                     ELSE UNCHANGED session
                ELSE IF c.sid \in DOMAIN session
                     THEN UNCHANGED session
                     ELSE session' = session @@ (c.sid :> NewSession(c, isClick, tEnd))
     /\ call' = [call EXCEPT ![p] =
          AfterSession(Caught(c, ~ok \/ ((c.existing = <<>>) = (c.sid \in DOMAIN session))))]
     /\ UNCHANGED <<profileView, linkClick, rollupVars, nextId, chainDown, serviceVars,
                    socketVars, aggVars>>

\* updateDailyStats: today = midnight of new Date();
\* await prisma.dailyStats.findUnique
DailyRead(p, ok) ==
  LET c == call[p]
      today == StartOfDay(now)
      key == <<c.profileId, today>>
  IN /\ c.pc = "daily-read"
     /\ IF ok
        THEN /\ call' = [call EXCEPT ![p] =
                  [c EXCEPT !.pc = "daily-write", !.today = today,
                            !.existing = IF key \in DOMAIN dailyStats
                                         THEN <<dailyStats[key]>> ELSE <<>>]]
             /\ UNCHANGED failures
        ELSE /\ MayFail
             /\ failures' = failures + 1
             /\ call' = [call EXCEPT ![p] = AfterDaily(Caught(c, TRUE))]
     /\ UNCHANGED <<storeVars, now, chainDown, serviceVars, socketVars, aggVars>>

\* updateDailyStats: await prisma.dailyStats.update / prisma.dailyStats.create
DailyWrite(p, ok) ==
  LET c == call[p]
      key == <<c.profileId, c.today>>
  IN /\ c.pc = "daily-write"
     /\ IF ~ok
        THEN /\ MayFail
             /\ failures' = failures + 1
             /\ UNCHANGED dailyStats
        ELSE /\ UNCHANGED failures
             /\ IF c.existing # <<>>
                THEN IF key \in DOMAIN dailyStats
                     THEN dailyStats' = [dailyStats EXCEPT ![key] =
                            BumpDailyStats(@, c.existing[1], c.kind)]
                     ELSE UNCHANGED dailyStats
                ELSE IF key \in DOMAIN dailyStats
                     THEN UNCHANGED dailyStats
                     ELSE dailyStats' = dailyStats @@ (key :> NewDailyStats(c.kind))
     /\ call' = [call EXCEPT ![p] =
          AfterDaily(Caught(c, ~ok \/ ((c.existing = <<>>) = (key \in DOMAIN dailyStats))))]
     /\ UNCHANGED <<rawVars, linkStats, geoStats, deviceStats, referrerStats, nextId,
                    now, chainDown, serviceVars, socketVars, aggVars>>

\* updateLinkStats: await prisma.linkStats.findUnique
LinkRead(p, ok) ==
  LET c == call[p]
      today == StartOfDay(now)
      key == <<c.profileId, c.linkIndex, today>>
  IN /\ c.pc = "link-read"
     /\ IF ok
        THEN /\ call' = [call EXCEPT ![p] =
                  [c EXCEPT !.pc = "link-write", !.today = today,
                            !.existing = IF key \in DOMAIN linkStats
                                         THEN <<linkStats[key]>> ELSE <<>>]]
             /\ UNCHANGED failures
        ELSE /\ MayFail
             /\ failures' = failures + 1
             /\ call' = [call EXCEPT ![p] = AfterLink(Caught(c, TRUE))]
     /\ UNCHANGED <<storeVars, now, chainDown, serviceVars, socketVars, aggVars>>

\* updateLinkStats: await prisma.linkStats.update / prisma.linkStats.create
LinkWrite(p, ok) ==
  LET c == call[p]
      key == <<c.profileId, c.linkIndex, c.today>>
  IN /\ c.pc = "link-write"
     /\ IF ~ok
        THEN /\ MayFail
             /\ failures' = failures + 1
             /\ UNCHANGED linkStats
        ELSE /\ UNCHANGED failures
             /\ IF c.existing # <<>>
                THEN IF key \in DOMAIN linkStats
                     THEN linkStats' = [linkStats EXCEPT ![key] =
                            BumpLinkStats(@, c.existing[1])]
                     ELSE UNCHANGED linkStats
                ELSE IF key \in DOMAIN linkStats
                     THEN UNCHANGED linkStats
                     ELSE linkStats' = linkStats @@
                            (key :> NewLinkStats(OrEmpty(c.linkTitle), OrEmpty(c.linkUrl)))
     /\ call' = [call EXCEPT ![p] =
          AfterLink(Caught(c, ~ok \/ ((c.existing = <<>>) = (key \in DOMAIN linkStats))))]
     /\ UNCHANGED <<rawVars, dailyStats, geoStats, deviceStats, referrerStats, nextId,
                    now, chainDown, serviceVars, socketVars, aggVars>>

\* the element of processedViews that batchTrackViews builds from views[i];
\* the route gives every view the request's ip and user agent
BatchData(c, i) ==
  [profileId |-> c.views[i].profileId, sessionId |-> c.views[i].sessionId,
   visitorIp |-> c.visitorIp, userAgent |-> c.userAgent,
   referrer |-> c.views[i].referrer, timestamp |-> c.views[i].timestamp]

BatchRows(c, n0, t) ==
  { ViewRow(n0 + 2 * (i - 1) + 1, BatchData(c, i),
            ResolveSessionId(c.views[i].sessionId, n0 + 2 * (i - 1)), t)
      : i \in 1..Len(c.views) }

\* POST /batch/views -> batchTrackViews: the map over views, then
\* await prisma.profileView.createMany; the route answers trackedCount
batchTrackViews(p, ok) ==
  LET c == call[p]
  IN /\ c.pc = "batch"
     /\ nextId' = nextId + 2 * Len(c.views)
     /\ IF ok
        THEN /\ profileView' = profileView \cup BatchRows(c, nextId, now)
             /\ call' = [call EXCEPT ![p] =
                  [c EXCEPT !.pc = "done", !.status = 200, !.respId = Len(c.views)]]
             /\ UNCHANGED failures
        ELSE /\ MayFail
             /\ failures' = failures + 1
             /\ call' = [call EXCEPT ![p] = Respond500(c)]
             /\ UNCHANGED profileView
     /\ UNCHANGED <<linkClick, session, rollupVars, now, chainDown, serviceVars, socketVars, aggVars>>

\* ----------------------------------------------- concurrent ingest
\* Calls of POST /view and /click on one profile within one day, their awaits
\* interleaved, the clock standing still, the chain adapter answering.
IngestRequests ==
  { ViewRequest(pr, sid, "", NULL, NULL, NoTime)
      : pr \in Profiles, sid \in ClientSessions }
  \cup
  { ClickRequest(pr, li, "Home", "https://a.example", sid, "", NULL, NULL, NoTime)
      : pr \in Profiles, li \in LinkIndexes, sid \in ClientSessions }

InitStore ==
  /\ profileView = {}
  /\ linkClick = {}
  /\ session = <<>>
  /\ dailyStats = <<>>
  /\ linkStats = <<>>
  /\ geoStats = {}
  /\ deviceStats = {}
  /\ referrerStats = <<>>
  /\ nextId = 1

InitServices ==
  /\ now = 0
  /\ failures = 0
  /\ chainDown = {}
  /\ rooms = [pr \in Profiles |-> {}]
  /\ outbox = [s \in Sockets |-> <<>>]
  /\ connectedClients = <<>>
  /\ aggRuns = 0
  /\ aggDays = {}
  /\ cache = <<>>
  /\ report = <<>>
  /\ stream = <<>>
  /\ registry = [profiles |-> <<>>, total_profiles |-> 0, blocked_users |-> {},
                 blocked_usernames |-> {}]
  /\ profiles = <<>>
  /\ nfts = <<>>
  /\ mutations = 0
  /\ lastTx = [fn |-> "none", status |-> "none", code |-> 0]

\* the process runs in UTC
InitRest ==
  /\ InitServices
  /\ tz = 0

InitIngest ==
  /\ InitStore
  /\ InitRest
  /\ call = [p \in 1..MaxCalls |-> IdleCall]

NextIngest ==
  \E p \in 1..MaxCalls :
    \/ \E request \in IngestRequests : Arrive(p, request)
    \/ Probe(p, "found")
    \/ \E ok \in BOOLEAN : CreateRow(p, ok)
    \/ \E ok \in BOOLEAN : SessionRead(p, ok)
    \/ \E ok \in BOOLEAN : SessionWrite(p, ok, now, now) /\ UNCHANGED now
    \/ \E ok \in BOOLEAN : DailyRead(p, ok)
    \/ \E ok \in BOOLEAN : DailyWrite(p, ok)
    \/ \E ok \in BOOLEAN : LinkRead(p, ok)
    \/ \E ok \in BOOLEAN : LinkWrite(p, ok)

SpecIngest == InitIngest /\ [][NextIngest]_vars

Returned(p) == call[p].pc = "done" /\ call[p].status = 200

Settled == \A p \in DOMAIN call : call[p].pc \in {"idle", "done"}

\* the calls of one kind on session s that have returned an id
ReturnedOn(s, kind) ==
  { p \in DOMAIN call : Returned(p) /\ call[p].kind = kind /\ call[p].sid = s }

\* C1: once all calls have returned, none of their store operations having
\* failed, the Session row of a shared sessionId counts every view call in
\* pageViews and every click call in linkClicks, whatever the interleaving.
C1_SessionCountsEveryEvent ==
  (Settled /\ failures = 0) =>
    \A s \in ClientSessions :
      (ReturnedOn(s, "view") \cup ReturnedOn(s, "click") # {}) =>
        /\ s \in DOMAIN session
        /\ session[s].pageViews = Cardinality(ReturnedOn(s, "view"))
        /\ session[s].linkClicks = Cardinality(ReturnedOn(s, "click"))

\* C2: within one day and without an Aggregator run, no step of concurrent
\* trackProfileView / trackLinkClick calls decreases DailyStats.views,
\* DailyStats.clicks or LinkStats.clicks of any key.
C2_CountersNeverDecrease ==
  [][/\ \A k \in DOMAIN dailyStats :
          /\ dailyStats'[k].views >= dailyStats[k].views
          /\ dailyStats'[k].clicks >= dailyStats[k].clicks
     /\ \A k \in DOMAIN linkStats :
          linkStats'[k].clicks >= linkStats[k].clicks]_vars

\* C5: a call that returns an id has had all its writes take effect: no
\* error was caught on the way, and the raw row, the Session row and the
\* DailyStats row (for a click, the LinkStats row too) are in the Store.
C5_AllOrNothing ==
  \A p \in DOMAIN call :
    (Returned(p) /\ call[p].kind \in {"view", "click"}) =>
      /\ call[p].caught = 0
      /\ \E r \in profileView \cup linkClick : r.id = call[p].respId
      /\ call[p].sid \in DOMAIN session
      /\ <<call[p].profileId, call[p].today>> \in DOMAIN dailyStats
      /\ call[p].kind = "click" =>
           <<call[p].profileId, call[p].linkIndex, call[p].today>> \in DOMAIN linkStats

\* ------------------------------------------------------- the routes
\* Calls of the three POST routes, with and without a client sessionId, the
\* chain adapter finding the profile, not finding it, or failing.
RouteRequests ==
  { ViewRequest(pr, sid, "", NULL, NULL, NoTime)
      : pr \in Profiles, sid \in ClientSessions \cup {NULL} }
  \cup
  { ClickRequest(pr, li, "Home", "https://a.example", sid, "", NULL, NULL, NoTime)
      : pr \in Profiles, li \in LinkIndexes, sid \in ClientSessions \cup {NULL} }

BatchEvents ==
  { [profileId |-> pr, sessionId |-> sid, referrer |-> NULL, timestamp |-> NoTime]
      : pr \in Profiles, sid \in ClientSessions \cup {NULL} }

BatchRequests ==
  { BatchRequest(views, "", NULL)
      : views \in UNION { [1..n -> BatchEvents] : n \in 1..MaxBatch } }

ChainOutcomes == {"found", "absent", "rpc-error"}

InitRoutes ==
  /\ InitStore
  /\ InitRest
  /\ call = [p \in 1..MaxRouteCalls |-> IdleCall]

NextRoutes ==
  \E p \in 1..MaxRouteCalls :
    \/ \E request \in RouteRequests \cup BatchRequests : Arrive(p, request)
    \/ \E outcome \in ChainOutcomes : Probe(p, outcome)
    \/ \E ok \in BOOLEAN : CreateRow(p, ok)
    \/ \E ok \in BOOLEAN : SessionRead(p, ok)
    \/ \E ok \in BOOLEAN : SessionWrite(p, ok, now, now) /\ UNCHANGED now
    \/ \E ok \in BOOLEAN : DailyRead(p, ok)
    \/ \E ok \in BOOLEAN : DailyWrite(p, ok)
    \/ \E ok \in BOOLEAN : LinkRead(p, ok)
    \/ \E ok \in BOOLEAN : LinkWrite(p, ok)
    \/ \E ok \in BOOLEAN : batchTrackViews(p, ok)

SpecRoutes == InitRoutes /\ [][NextRoutes]_vars

\* C7: a 200 answer to a /view or /click request sent without a sessionId
\* carries the minted identifier, the one stored on the created raw row and
\* on the Session row of that event.
C7_ResponseCarriesMintedSession ==
  \A p \in DOMAIN call :
    (Returned(p) /\ call[p].kind \in {"view", "click"} /\ call[p].sessionId = NULL
       /\ failures = 0) =>
      /\ \E r \in profileView \cup linkClick :
           /\ r.id = call[p].respId
           /\ r.sessionId = call[p].respSessionId
      /\ call[p].respSessionId \in DOMAIN session

\* trackProfileView run alone and without a failing store, on the views of
\* call c from the i-th on: raw row, Session upsert, DailyStats upsert
RECURSIVE TrackViewsInOrder(_, _, _, _)
TrackViewsInOrder(st, c, i, t) ==
  IF i > Len(c.views) THEN st
  ELSE LET d == BatchData(c, i)
           sid == ResolveSessionId(d.sessionId, st.nextId)
           key == <<d.profileId, StartOfDay(t)>>
       IN TrackViewsInOrder(
            [profileView |-> st.profileView \cup {ViewRow(st.nextId + 1, d, sid, t)},
             session |->
               IF sid \in DOMAIN st.session
               THEN [st.session EXCEPT ![sid] =
                      TouchSession(st.session[sid], st.session[sid], FALSE, t, t)]
               ELSE st.session @@ (sid :> NewSession(d, FALSE, t)),
             dailyStats |->
               IF key \in DOMAIN st.dailyStats
               THEN [st.dailyStats EXCEPT ![key] =
                      BumpDailyStats(st.dailyStats[key], st.dailyStats[key], "view")]
               ELSE st.dailyStats @@ (key :> NewDailyStats("view")),
             nextId |-> st.nextId + 2],
            c, i + 1, t)

\* C9: the step in which batchTrackViews(events) succeeds leaves ProfileView,
\* Session and DailyStats as trackProfileView called once per event, in
\* order, would leave them.
C9_BatchEqualsPerEventCalls ==
  [][\A p \in DOMAIN call :
       (call[p].pc = "batch" /\ call'[p].pc = "done" /\ call'[p].status = 200) =>
         LET st == TrackViewsInOrder(
                     [profileView |-> profileView, session |-> session,
                      dailyStats |-> dailyStats, nextId |-> nextId],
                     call[p], 1, now)
         IN /\ profileView' = st.profileView
            /\ session' = st.session
            /\ dailyStats' = st.dailyStats]_vars

\* C10: a call whose chain probe met an RPC error or a timeout is not
\* answered 404, and its event is recorded when the store does not fail.
C10_ChainFailureIsNotNotFound ==
  \A p \in chainDown :
    call[p].pc = "done" =>
      /\ call[p].status # 404
      /\ call[p].status = 200 =>
           \E r \in profileView \cup linkClick : r.id = call[p].respId

\* ---------------------------------------------------- the Aggregator
\* the orders in which a query without orderBy can return the groups S
Perms(S) ==
  { f \in [1..Cardinality(S) -> S] : \A i, j \in 1..Cardinality(S) : i # j => f[i] # f[j] }

\* where: { timestamp: { gte: yesterday, lt: today } }
InDay(rows, yesterday, today) ==
  { r \in rows : yesterday <= r.timestamp /\ r.timestamp < today }

\* groupBy({ by: ['sessionId'], where: { sessionId: { not: null } } }).length
DistinctSessions(rows) == Cardinality({ r.sessionId : r \in { x \in rows : x.sessionId # NULL } })

\* value || fallback on a nullable string
OrElse(s, fallback) == IF s = NULL \/ s = "" THEN fallback ELSE s

\* the row aggregateDailyStats computes for one active profile
DailyRollup(profileId, yesterday, today) ==
  LET views == { r \in InDay(profileView, yesterday, today) : r.profileId = profileId }
      clicks == { r \in InDay(linkClick, yesterday, today) : r.profileId = profileId }
      sessions == { x \in DOMAIN session :
                      /\ session[x].profileId = profileId
                      /\ yesterday <= session[x].startTime
                      /\ session[x].startTime < today }
      timed == { x \in sessions : session[x].duration # NoTime }
      totalSessions == Cardinality(sessions)
      singlePageSessions == Cardinality({ x \in sessions : session[x].pageViews = 1 })
  IN [views |-> Cardinality(views),
      uniqueViews |-> DistinctSessions(views),
      clicks |-> Cardinality(clicks),
      uniqueClicks |-> DistinctSessions(clicks),
      sessions |-> totalSessions,
      avgDuration |-> Ratio(SetSum(timed, [x \in timed |-> session[x].duration]),
                            Cardinality(timed)),
      bounceRate |-> IF totalSessions > 0
                     THEN Ratio(singlePageSessions * 100, totalSessions)
                     ELSE Ratio(0, 1)]

\* an aggregation that would file yesterday's rollup under today's date
aggregateDailyStatsUnderToday(table, yesterday, today) ==
  LET activeProfiles == { r.profileId : r \in InDay(profileView, yesterday, today) }
      keys == { <<pr, today>> : pr \in activeProfiles }
  IN [k \in DOMAIN table \cup keys |->
        IF k \in keys THEN DailyRollup(k[1], yesterday, today) ELSE table[k]]

\* aggregateDailyStats: one upsert per profile with a ProfileView yesterday
aggregateDailyStats(table, yesterday, today) ==
  LET activeProfiles == { r.profileId : r \in InDay(profileView, yesterday, today) }
      keys == { <<pr, yesterday>> : pr \in activeProfiles }
  IN [k \in DOMAIN table \cup keys |->
        IF k \in keys THEN DailyRollup(k[1], yesterday, today) ELSE table[k]]

\* aggregateLinkStats: the groups (profileId, linkIndex, linkTitle, linkUrl)
\* in the order `groups`, each upserted under (profileId, linkIndex, date)
RECURSIVE aggregateLinkStats(_, _, _, _, _)
aggregateLinkStats(table, groups, i, yesterday, today) ==
  IF i > Len(groups) THEN table
  ELSE LET g == groups[i]
           key == <<g.profileId, g.linkIndex, yesterday>>
           count == Cardinality({ r \in InDay(linkClick, yesterday, today) :
                       /\ r.profileId = g.profileId /\ r.linkIndex = g.linkIndex
                       /\ r.linkTitle = g.linkTitle /\ r.linkUrl = g.linkUrl })
           uniqueClicks == DistinctSessions({ r \in InDay(linkClick, yesterday, today) :
                              r.profileId = g.profileId /\ r.linkIndex = g.linkIndex })
           totalViews == Cardinality({ r \in InDay(profileView, yesterday, today) :
                              r.profileId = g.profileId })
           row == [linkTitle |-> OrElse(g.linkTitle, "Untitled"),
                   linkUrl |-> OrElse(g.linkUrl, ""),
                   clicks |-> count, uniqueClicks |-> uniqueClicks,
                   ctr |-> IF totalViews > 0 THEN Ratio(count * 100, totalViews)
                           ELSE Ratio(0, 1)]
       IN aggregateLinkStats(
            IF key \in DOMAIN table THEN [table EXCEPT ![key] = row]
            ELSE table @@ (key :> row),
            groups, i + 1, yesterday, today)

LinkGroups(yesterday, today) ==
  { [profileId |-> r.profileId, linkIndex |-> r.linkIndex, linkTitle |-> r.linkTitle,
     linkUrl |-> r.linkUrl] : r \in InDay(linkClick, yesterday, today) }

\* the key of clicksMap: a template string over the group's fields
GeoKey(g) ==
  g.profileId \o "-" \o g.country \o "-" \o OrElse(g.city, "") \o "-" \o OrElse(g.region, "")

DeviceKey(g) ==
  g.profileId \o "-" \o g.deviceType \o "-" \o OrElse(g.browser, "") \o "-" \o OrElse(g.os, "")

ReferrerKey(g) == g.profileId \o "-" \o g.referrer

GeoGroups(rows, yesterday, today) ==
  { [profileId |-> r.profileId, country |-> r.country, city |-> r.city,
     region |-> r.region]
      : r \in { x \in InDay(rows, yesterday, today) : x.country # NULL } }

DeviceGroups(rows, yesterday, today) ==
  { [profileId |-> r.profileId, deviceType |-> r.deviceType, browser |-> r.browser,
     os |-> r.os]
      : r \in { x \in InDay(rows, yesterday, today) : x.deviceType # NULL } }

ReferrerGroups(rows, yesterday, today) ==
  { [profileId |-> r.profileId, referrer |-> r.referrer]
      : r \in { x \in InDay(rows, yesterday, today) : x.referrer # NULL } }

\* _count.id of a group: the rows that agree with it on every grouped field
GroupCount(rows, g) ==
  Cardinality({ r \in rows : \A f \in DOMAIN g : r[f] = g[f] })

\* clicksMap.get(key) || 0, clicksMap filled from the click groups: a later
\* group with the same key string replaces an earlier one
RECURSIVE ClicksMapGet(_, _, _, _)
ClicksMapGet(clickGroups, counts, keys, key) ==
  IF clickGroups = <<>> THEN 0
  ELSE LET n == Len(clickGroups) IN
       IF keys[n] = key THEN counts[n]
       ELSE ClicksMapGet(SubSeq(clickGroups, 1, n - 1), counts, keys, key)

\* the auto id of a row inserted into `table`
AutoId(table) ==
  IF table = {} THEN 1
  ELSE 1 + (CHOOSE n \in { r.id : r \in table } : \A r \in table : r.id <= n)

\* prisma.geoStats.upsert: where looks for city || '', create stores the
\* group's own city and region; a NULL column equals no where value
GeoUpsert(table, g, views, clicks, yesterday) ==
  LET hit == { r \in table : /\ r.profileId = g.profileId /\ r.country = g.country
                              /\ r.city = OrElse(g.city, "") /\ r.date = yesterday }
  IN IF hit # {}
     THEN (table \ hit) \cup { [r EXCEPT !.views = views, !.clicks = clicks] : r \in hit }
     ELSE table \cup { [id |-> AutoId(table), profileId |-> g.profileId, country |-> g.country,
                        city |-> g.city, region |-> g.region, date |-> yesterday,
                        views |-> views, clicks |-> clicks] }

\* prisma.deviceStats.upsert: where looks for browser || '' and os || '',
\* create stores the group's own browser and os
DeviceUpsert(table, g, views, clicks, yesterday) ==
  LET hit == { r \in table : /\ r.profileId = g.profileId
                              /\ r.deviceType = g.deviceType
                              /\ r.browser = OrElse(g.browser, "")
                              /\ r.os = OrElse(g.os, "") /\ r.date = yesterday }
  IN IF hit # {}
     THEN (table \ hit) \cup { [r EXCEPT !.views = views, !.clicks = clicks] : r \in hit }
     ELSE table \cup { [id |-> AutoId(table), profileId |-> g.profileId,
                        deviceType |-> g.deviceType, browser |-> g.browser,
                        os |-> g.os, date |-> yesterday,
                        views |-> views, clicks |-> clicks] }

\* aggregateGeoStats: the view groups in the order viewGroups, from the i-th on
RECURSIVE aggregateGeoStats(_, _, _, _, _, _)
aggregateGeoStats(table, viewGroups, clickGroups, i, yesterday, today) ==
  IF i > Len(viewGroups) THEN table
  ELSE LET g == viewGroups[i]
           clicks == ClicksMapGet(clickGroups,
                       [n \in DOMAIN clickGroups |->
                          GroupCount(InDay(linkClick, yesterday, today), clickGroups[n])],
                       [n \in DOMAIN clickGroups |-> GeoKey(clickGroups[n])],
                       GeoKey(g))
       IN aggregateGeoStats(
            GeoUpsert(table, g, GroupCount(InDay(profileView, yesterday, today), g),
                      clicks, yesterday),
            viewGroups, clickGroups, i + 1, yesterday, today)

\* aggregateDeviceStats, likewise
RECURSIVE aggregateDeviceStats(_, _, _, _, _, _)
aggregateDeviceStats(table, viewGroups, clickGroups, i, yesterday, today) ==
  IF i > Len(viewGroups) THEN table
  ELSE LET g == viewGroups[i]
           clicks == ClicksMapGet(clickGroups,
                       [n \in DOMAIN clickGroups |->
                          GroupCount(InDay(linkClick, yesterday, today), clickGroups[n])],
                       [n \in DOMAIN clickGroups |-> DeviceKey(clickGroups[n])],
                       DeviceKey(g))
       IN aggregateDeviceStats(
            DeviceUpsert(table, g, GroupCount(InDay(profileView, yesterday, today), g),
                         clicks, yesterday),
            viewGroups, clickGroups, i + 1, yesterday, today)

\* the referrers of the requests of this model
RefGoogle == "https://www.google.com/search?q=x"
RefTwitter == "https://twitter.com/someone"
RefBlog == "https://blog.example/post"
RefShared == "https://twitter.com/google"
RefBing == "HTTPS://WWW.Bing.com/search"
RefDirect == "Direct"

\* the lower-case form of a character
LowerChar(c) ==
  CASE c = "A" -> "a" [] c = "B" -> "b" [] c = "C" -> "c" [] c = "D" -> "d"
    [] c = "E" -> "e" [] c = "F" -> "f" [] c = "G" -> "g" [] c = "H" -> "h"
    [] c = "I" -> "i" [] c = "J" -> "j" [] c = "K" -> "k" [] c = "L" -> "l"
    [] c = "M" -> "m" [] c = "N" -> "n" [] c = "O" -> "o" [] c = "P" -> "p"
    [] c = "Q" -> "q" [] c = "R" -> "r" [] c = "S" -> "s" [] c = "T" -> "t"
    [] c = "U" -> "u" [] c = "V" -> "v" [] c = "W" -> "w" [] c = "X" -> "x"
    [] c = "Y" -> "y" [] c = "Z" -> "z" [] OTHER -> c

\* String.prototype.toLowerCase
RECURSIVE ToLowerCase(_)
ToLowerCase(s) ==
  IF Len(s) = 0 THEN ""
  ELSE LowerChar(SubSeq(s, 1, 1)) \o ToLowerCase(SubSeq(s, 2, Len(s)))

\* referrer.toLowerCase().includes(word)
Includes(referrer, word) ==
  LET s == ToLowerCase(referrer)
  IN \E i \in 1..(Len(s) - Len(word) + 1) : SubSeq(s, i, i + Len(word) - 1) = word

\* a classification that would look for the social networks first
ReferrerTypeSocialFirst(referrer) ==
  IF \/ Includes(referrer, "facebook") \/ Includes(referrer, "twitter")
     \/ Includes(referrer, "instagram") \/ Includes(referrer, "linkedin")
  THEN "social"
  ELSE IF Includes(referrer, "google") \/ Includes(referrer, "bing")
          \/ Includes(referrer, "yahoo")
  THEN "search"
  ELSE IF ToLowerCase(referrer) = "" \/ ToLowerCase(referrer) = "direct" THEN "direct"
  ELSE "other"

\* the referrerType of aggregateReferrerStats
ReferrerType(referrer) ==
  IF Includes(referrer, "google") \/ Includes(referrer, "bing") \/ Includes(referrer, "yahoo")
  THEN "search"
  ELSE IF \/ Includes(referrer, "facebook") \/ Includes(referrer, "twitter")
          \/ Includes(referrer, "instagram") \/ Includes(referrer, "linkedin")
  THEN "social"
  ELSE IF ToLowerCase(referrer) = "" \/ ToLowerCase(referrer) = "direct" THEN "direct"
  ELSE "other"

\* aggregateReferrerStats: one upsert per (profileId, referrer) of the views
aggregateReferrerStats(table, clickGroups, yesterday, today) ==
  LET viewGroups == ReferrerGroups(profileView, yesterday, today)
      keys == { <<g.profileId, g.referrer, yesterday>> : g \in viewGroups }
      Row(k) ==
        LET g == [profileId |-> k[1], referrer |-> k[2]]
        IN [referrerType |-> ReferrerType(k[2]),
            views |-> GroupCount(InDay(profileView, yesterday, today), g),
            clicks |-> ClicksMapGet(clickGroups,
                         [n \in DOMAIN clickGroups |->
                            GroupCount(InDay(linkClick, yesterday, today), clickGroups[n])],
                         [n \in DOMAIN clickGroups |-> ReferrerKey(clickGroups[n])],
                         ReferrerKey(g))]
  IN [k \in DOMAIN table \cup keys |-> IF k \in keys THEN Row(k) ELSE table[k]]

\* runAllAggregations for yesterday, no ingest call being in flight: the five
\* aggregations read the raw tables only and write one rollup table each.
\* The orders are those in which the groupBy queries return their groups.
runAllAggregations(linkOrder, geoViews, geoClicks, deviceViews, deviceClicks, referrerClicks) ==
  LET today == StartOfDay(now)
      yesterday == today - DayMs
  IN /\ dailyStats' = aggregateDailyStats(dailyStats, yesterday, today)
     /\ linkStats' = aggregateLinkStats(linkStats, linkOrder, 1, yesterday, today)
     /\ geoStats' = aggregateGeoStats(geoStats, geoViews, geoClicks, 1, yesterday, today)
     /\ deviceStats' =
          aggregateDeviceStats(deviceStats, deviceViews, deviceClicks, 1, yesterday, today)
     /\ referrerStats' =
          aggregateReferrerStats(referrerStats, referrerClicks, yesterday, today)
     /\ aggRuns' = aggRuns + 1
     /\ aggDays' = aggDays \cup {yesterday}
     /\ UNCHANGED <<rawVars, nextId, now, call, failures, chainDown, serviceVars, socketVars>>

\* the cron job at 02:00, or an ad-hoc run
RunAggregator ==
  LET today == StartOfDay(now)
      yesterday == today - DayMs
  IN /\ aggRuns < MaxAggRuns
     /\ \E linkOrder \in Perms(LinkGroups(yesterday, today)),
           geoViews \in Perms(GeoGroups(profileView, yesterday, today)),
           geoClicks \in Perms(GeoGroups(linkClick, yesterday, today)),
           deviceViews \in Perms(DeviceGroups(profileView, yesterday, today)),
           deviceClicks \in Perms(DeviceGroups(linkClick, yesterday, today)),
           referrerClicks \in Perms(ReferrerGroups(linkClick, yesterday, today)) :
          runAllAggregations(linkOrder, geoViews, geoClicks, deviceViews, deviceClicks,
                             referrerClicks)

\* POST /view or /click served alone: the chain finds the profile, no store
\* operation fails, no other call interleaves. tEnd and tDur are the two
\* readings of the clock in the session update.
TrackAt(d, tEnd, tDur) ==
  LET isClick == d.kind = "click"
      sid == ResolveSessionId(d.sessionId, nextId)
      id == nextId + 1
      today == StartOfDay(now)
      dailyKey == <<d.profileId, today>>
      linkKey == <<d.profileId, d.linkIndex, today>>
      row == IF isClick THEN ClickRow(id, d, sid, now) ELSE ViewRow(id, d, sid, now)
  IN /\ nextId' = nextId + 2
     /\ IF isClick
        THEN linkClick' = linkClick \cup {row} /\ UNCHANGED profileView
        ELSE profileView' = profileView \cup {row} /\ UNCHANGED linkClick
     /\ session' = IF sid \in DOMAIN session
                   THEN [session EXCEPT ![sid] =
                          TouchSession(session[sid], session[sid], isClick, tEnd, tDur)]
                   ELSE session @@ (sid :> NewSession(d, isClick, now))
     /\ dailyStats' = IF dailyKey \in DOMAIN dailyStats
                      THEN [dailyStats EXCEPT ![dailyKey] =
                             BumpDailyStats(dailyStats[dailyKey], dailyStats[dailyKey], d.kind)]
                      ELSE dailyStats @@ (dailyKey :> NewDailyStats(d.kind))
     /\ linkStats' = IF ~isClick THEN linkStats
                     ELSE IF linkKey \in DOMAIN linkStats
                     THEN [linkStats EXCEPT ![linkKey] =
                            BumpLinkStats(linkStats[linkKey], linkStats[linkKey])]
                     ELSE linkStats @@
                            (linkKey :> NewLinkStats(OrEmpty(d.linkTitle), OrEmpty(d.linkUrl)))
     /\ UNCHANGED <<geoStats, deviceStats, referrerStats, failures,
                    chainDown, serviceVars, socketVars>>

\* the same, no time passing while the call is served
TrackAlone(d) ==
  /\ TrackAt(d, now, now)
  /\ UNCHANGED call
  /\ aggRuns' = 0
  /\ aggDays' = aggDays \ {StartOfDay(IF d.timestamp = NoTime THEN now ELSE d.timestamp)}
  /\ UNCHANGED now

\* midnight passes
NextDay ==
  /\ now < MaxDay * DayMs
  /\ now' = now + DayMs
  /\ aggRuns' = 0
  /\ UNCHANGED <<storeVars, call, failures, chainDown, serviceVars, socketVars, aggDays>>

\* the requests of the Aggregator runs: a browser with a known and one with
\* an unknown user agent, an event carrying yesterday's timestamp, clicks
AggRequests ==
  { ViewRequest("P1", "S", "ip-city", "ua-laptop", RefGoogle, NoTime),
    ViewRequest("P1", NULL, "", "ua-robot", NULL, NoTime),
    ClickRequest("P1", 0, "Home", "https://a.example", "S", "ip-city", "ua-laptop",
                 RefGoogle, NoTime) }
  \cup
  IF now >= DayMs
  THEN { ViewRequest("P1", "S", "", NULL, NULL, StartOfDay(now) - DayMs) }
  ELSE {}

InitAgg ==
  /\ InitStore
  /\ InitRest
  /\ call = <<>>

NextAgg ==
  \/ \E d \in AggRequests :
       /\ Cardinality(profileView) + Cardinality(linkClick) < MaxAggEvents
       /\ TrackAlone(d)
  \/ NextDay
  \/ RunAggregator

SpecAgg == InitAgg /\ [][NextAgg]_vars

\* C3: with the raw tables unchanged, a second runAllAggregations for the
\* same closed day leaves the five rollup tables as the first run left them:
\* the same rows with the same values.
C3_SecondRunChangesNothing ==
  [][(aggRuns = 1 /\ aggRuns' = 2) => UNCHANGED rollupVars]_vars

ViewsOfDay(profileId, date) ==
  IF <<profileId, date>> \in DOMAIN dailyStats THEN dailyStats[<<profileId, date>>].views
  ELSE 0

\* C4: once the Aggregator has run for every day up to D2 (after the last
\* event of each), DailyStats.views summed over [D1, D2] is the number of
\* ProfileView rows with a timestamp in [D1, D2], for every profile.
C4_DailyViewsSumToRawCount ==
  \A d2 \in 0..MaxDay :
    (\A d \in 0..d2 : d * DayMs \in aggDays) =>
      \A d1 \in 0..d2, pr \in Profiles :
        SetSum(d1..d2, [d \in d1..d2 |-> ViewsOfDay(pr, d * DayMs)])
          = Cardinality({ r \in profileView :
                            /\ r.profileId = pr
                            /\ d1 * DayMs <= r.timestamp
                            /\ r.timestamp < (d2 + 1) * DayMs })

\* ------------------------------------------------- Session lifecycle
\* what the clock may advance by between two consecutive `new Date()`
ClockDrift == {0, 1}

\* the passing of time between calls: a millisecond short of a second, a day
ClockSteps == {999, DayMs}

Tick(dt) ==
  /\ now + dt <= MaxNow
  /\ dt < DayMs => (now % DayMs) + dt <= MaxElapsed
  /\ now' = now + dt
  /\ UNCHANGED <<storeVars, call, failures, chainDown, serviceVars, socketVars, aggVars>>

\* POST /view or /click: updateSession reads the clock for endTime, then
\* again for duration
TrackSession(d, drift) ==
  /\ TrackAt(d, now, now + drift)
  /\ now' = now + drift
  /\ UNCHANGED <<call, aggVars>>

\* POST /session/end: endSession reads the clock for duration, then again
\* for endTime
endSession(sessionId, drift) ==
  /\ IF sessionId \in DOMAIN session
     THEN IF session[sessionId].endTime = NoTime
          THEN /\ session' =
                    [session EXCEPT ![sessionId] =
                       [session[sessionId] EXCEPT
                          !.duration = (now - session[sessionId].startTime) \div MsPerSecond,
                          !.endTime = now + drift]]
               /\ now' = now + drift
          ELSE UNCHANGED <<session, now>>
     ELSE UNCHANGED <<session, now>>
  /\ UNCHANGED <<profileView, linkClick, rollupVars, nextId, call, failures,
                 chainDown, serviceVars, socketVars, aggVars>>

\* the hourly job: every session started more than a day ago and never
\* ended is ended at the cutoff
cleanupOrphanedSessions ==
  LET cutoffDate == now - DayMs
      orphanedSessions == { sid \in DOMAIN session :
                              /\ session[sid].startTime < cutoffDate
                              /\ session[sid].endTime = NoTime }
  IN /\ session' =
          [sid \in DOMAIN session |->
             IF sid \in orphanedSessions
             THEN [session[sid] EXCEPT
                     !.endTime = cutoffDate,
                     !.duration = (cutoffDate - session[sid].startTime) \div MsPerSecond]
             ELSE session[sid]]
     /\ UNCHANGED <<profileView, linkClick, rollupVars, nextId, now, call, failures,
                    chainDown, serviceVars, socketVars, aggVars>>

SessionRequests ==
  { ViewRequest("P1", "S", "ip-city", "ua-laptop", RefGoogle, NoTime),
    ViewRequest("P1", NULL, "ip-city", "ua-laptop", NULL, NoTime),
    ClickRequest("P1", 0, "Home", "https://a.example", "S", "ip-city", "ua-laptop",
                 NULL, NoTime) }

InitSession ==
  /\ InitStore
  /\ InitRest
  /\ call = <<>>

NextSession ==
  \/ \E d \in SessionRequests, drift \in ClockDrift :
       /\ Cardinality(profileView) + Cardinality(linkClick) < MaxSessionEvents
       /\ TrackSession(d, drift)
  \/ \E sessionId \in DOMAIN session \cup {"S"}, drift \in ClockDrift :
       endSession(sessionId, drift)
  \/ cleanupOrphanedSessions
  \/ \E dt \in ClockSteps : Tick(dt)

SpecSession == InitSession /\ [][NextSession]_vars

\* every Session has seen an event
SessionHasEvent(row) == row.pageViews + row.linkClicks >= 1

\* an ended Session does not end before it starts
SessionEndsAfterStart(row) == row.endTime # NoTime => row.startTime <= row.endTime

\* the duration of an ended Session is its length in whole seconds
SessionDurationIsLength(row) ==
  row.endTime # NoTime =>
    row.duration = (row.endTime - row.startTime) \div MsPerSecond

\* C6: after any sequence of trackProfileView, trackLinkClick, endSession and
\* cleanupOrphanedSessions, every Session has pageViews + linkClicks >= 1 and,
\* once endTime is set, startTime <= endTime and duration is
\* endTime - startTime in whole seconds.
C6_SessionRowIsConsistent ==
  \A sid \in DOMAIN session :
    /\ SessionHasEvent(session[sid])
    /\ SessionEndsAfterStart(session[sid])
    /\ SessionDurationIsLength(session[sid])

\* ------------------------------------------------- Realtime channel
\* a message emitted to a socket
Message(event, profileId, code) == [event |-> event, profileId |-> profileId, code |-> code]

\* the messages emitted to a socket followed by one more, the latest kept
Latest(messages, message) ==
  IF Len(messages) < MaxOutbox THEN Append(messages, message)
  ELSE Append(Tail(messages), message)

\* socket.emit / io.to(room).emit: the message goes to each socket of `targets`
Emit(targets, message) ==
  [s \in Sockets |-> IF s \in targets THEN Latest(outbox[s], message) ELSE outbox[s]]

\* io.on('connection')
Connect(s) ==
  /\ s \notin DOMAIN connectedClients
  /\ connectedClients' = connectedClients @@ (s :> [profileId |-> NULL])
  /\ UNCHANGED <<storeVars, now, call, failures, chainDown, serviceVars, rooms, outbox, aggVars>>

\* socket.on('subscribe:profile'): outcome is that of the chain probe, ok
\* whether getRealTimeAnalytics answers
Subscribe(s, profileId, outcome, ok) ==
  /\ s \in DOMAIN connectedClients
  /\ IF ~profileExists(outcome)
     THEN /\ outbox' = Emit({s}, Message("error", NULL, "PROFILE_NOT_FOUND"))
          /\ UNCHANGED <<rooms, connectedClients>>
     ELSE /\ rooms' = [rooms EXCEPT ![profileId] = @ \cup {s}]
          /\ connectedClients' = [connectedClients EXCEPT ![s].profileId = profileId]
          /\ outbox' = IF ok
                       THEN Emit({s}, Message("analytics:realtime", profileId, NULL))
                       ELSE Emit({s}, Message("error", NULL, "SUBSCRIPTION_ERROR"))
  /\ UNCHANGED <<storeVars, now, call, failures, chainDown, serviceVars, aggVars>>

\* the body of socket.on('unsubscribe:profile')
OnUnsubscribe(s, profileId) ==
  /\ s \in DOMAIN connectedClients
  /\ rooms' = [rooms EXCEPT ![profileId] = @ \ {s}]
  /\ connectedClients' = [connectedClients EXCEPT ![s].profileId = NULL]
  /\ UNCHANGED <<storeVars, now, failures, chainDown, serviceVars, outbox, aggVars>>

\* socket.on('unsubscribe:profile')
Unsubscribe(s, profileId) ==
  /\ OnUnsubscribe(s, profileId)
  /\ UNCHANGED call

\* socket.on('ping')
Ping(s) ==
  /\ s \in DOMAIN connectedClients
  /\ outbox' = Emit({s}, Message("pong", NULL, NULL))
  /\ UNCHANGED <<storeVars, now, call, failures, chainDown, serviceVars, rooms, connectedClients,
                 aggVars>>

\* the body of socket.on('disconnect'); socket.io takes the socket out of
\* its rooms
OnDisconnect(s) ==
  /\ s \in DOMAIN connectedClients
  /\ connectedClients' = [k \in DOMAIN connectedClients \ {s} |-> connectedClients[k]]
  /\ rooms' = [pr \in Profiles |-> rooms[pr] \ {s}]
  /\ UNCHANGED <<storeVars, now, failures, chainDown, serviceVars, outbox, aggVars>>

\* socket.on('disconnect')
Disconnect(s) ==
  /\ OnDisconnect(s)
  /\ UNCHANGED call

\* the 10 s timer: one analytics:realtime per profile room that has sockets
\* and whose getRealTimeAnalytics answers; a message reaches the connected
\* sockets of the room
broadcastRealtimeUpdates(answers) ==
  LET targets == UNION { rooms[pr] : pr \in answers } \cap DOMAIN connectedClients
  IN /\ targets # {}
     /\ \A pr \in answers : pr \in Profiles
     /\ outbox' =
          [s \in Sockets |->
             IF s \in targets
             THEN Latest(outbox[s],
                         Message("analytics:realtime",
                                 CHOOSE pr \in answers : s \in rooms[pr], NULL))
             ELSE outbox[s]]
     /\ UNCHANGED <<storeVars, now, call, failures, chainDown, serviceVars, rooms, connectedClients,
                    aggVars>>

\* the heartbeat timer: io.emit to every connected socket
heartbeat ==
  /\ DOMAIN connectedClients # {}
  /\ outbox' = Emit(DOMAIN connectedClients, Message("heartbeat", NULL, NULL))
  /\ UNCHANGED <<storeVars, now, call, failures, chainDown, serviceVars, rooms, connectedClients,
                 aggVars>>

\* POST /view or /click while sockets are subscribed: the row is committed
\* and the call answered; nothing is emitted. audience keeps the sockets
\* that were in the room profile:<profileId> when the row was committed.
TrackRealtime(p, d) ==
  /\ call[p].pc = "idle"
  /\ TrackAt(d, now, now)
  /\ call' = [call EXCEPT ![p] =
                Respond200([d EXCEPT !.sid = ResolveSessionId(d.sessionId, nextId),
                                     !.rowId = nextId + 1,
                                     !.audience = rooms[d.profileId]])]
  /\ UNCHANGED <<now, aggVars>>

RealtimeRequests ==
  { ViewRequest("P1", "S", "ip-city", "ua-laptop", NULL, NoTime),
    ClickRequest("P1", 0, "Home", "https://a.example", "S", "ip-city", "ua-laptop",
                 NULL, NoTime) }

InitRealtime ==
  /\ InitStore
  /\ InitRest
  /\ call = [p \in 1..MaxRealtimeCalls |-> IdleCall]

Timers ==
  \/ \E answers \in SUBSET Profiles : broadcastRealtimeUpdates(answers)
  \/ heartbeat

NextRealtime ==
  \/ \E s \in Sockets : Connect(s)
  \/ \E s \in Sockets, profileId \in Profiles, outcome \in ChainOutcomes, ok \in BOOLEAN :
       Subscribe(s, profileId, outcome, ok)
  \/ \E s \in Sockets, profileId \in Profiles : Unsubscribe(s, profileId)
  \/ \E s \in Sockets : Ping(s)
  \/ \E s \in Sockets : Disconnect(s)
  \/ \E p \in 1..MaxRealtimeCalls, d \in RealtimeRequests : TrackRealtime(p, d)
  \/ Timers

SpecRealtime == InitRealtime /\ [][NextRealtime]_vars

\* the timers keep firing
SpecRealtimeFair == SpecRealtime /\ WF_vars(Timers)

\* the socket has received the notification of an event of the profile
Notified(s, profileId, kind) ==
  \E n \in DOMAIN outbox[s] :
    /\ outbox[s][n].profileId = profileId
    /\ outbox[s][n].event = IF kind = "click" THEN "analytics:new_click"
                            ELSE "analytics:new_view"

\* C8: every socket that was subscribed to profile P when a tracked event
\* of P committed eventually receives analytics:new_view (a view) or
\* analytics:new_click (a click) for it.
C8_SubscribersAreNotified ==
  \A p \in 1..MaxRealtimeCalls, s \in Sockets :
    (call[p].status = 200 /\ s \in call[p].audience)
      ~> Notified(s, call[p].profileId, call[p].kind)

\* ------------------------------------------------------------ Reports
\* take: 10 of the geographic and referrer queries
TakeTop == 10

\* the rows of a profile with timestamp in [start, end]
InRange(rows, profileId, start, end) ==
  { r \in rows : r.profileId = profileId /\ start <= r.timestamp /\ r.timestamp <= end }

\* groupBy [field] with the field not null and _count.id: value -> count
CountBy(rows, field) ==
  [v \in { r[field] : r \in { x \in rows : x[field] # NULL } } |->
     Cardinality({ r \in rows : r[field] = v })]

\* orderBy _count desc, take n: n groups none of which has fewer rows than a
\* group left out
Take(counts, n) ==
  IF Cardinality(DOMAIN counts) <= n THEN counts
  ELSE LET kept == CHOOSE K \in SUBSET DOMAIN counts :
                     /\ Cardinality(K) = n
                     /\ \A k \in K, o \in DOMAIN counts \ K : counts[k] >= counts[o]
       IN [k \in kept |-> counts[k]]

\* the queries getProfileAnalytics sends to the Store through Promise.all
Queries ==
  {"totalViews", "uniqueViews", "totalClicks", "uniqueClicks", "geoViews", "geoClicks",
   "deviceViews", "deviceClicks", "referrerViews", "referrerClicks"}

\* the answer of the Store to one query, on the rows it holds now
QueryResult(q, profileId, start, end) ==
  LET views == InRange(profileView, profileId, start, end)
      clicks == InRange(linkClick, profileId, start, end)
  IN CASE q = "totalViews" -> Cardinality(views)
       [] q = "uniqueViews" -> DistinctSessions(views)
       [] q = "totalClicks" -> Cardinality(clicks)
       [] q = "uniqueClicks" -> DistinctSessions(clicks)
       [] q = "geoViews" -> Take(CountBy(views, "country"), TakeTop)
       [] q = "geoClicks" -> CountBy(clicks, "country")
       [] q = "deviceViews" -> CountBy(views, "deviceType")
       [] q = "deviceClicks" -> CountBy(clicks, "deviceType")
       [] q = "referrerViews" -> Take(CountBy(views, "referrer"), TakeTop)
       [] q = "referrerClicks" -> CountBy(clicks, "referrer")

\* the index of the first "/", "?" or "#" of s from the i-th character on,
\* and Len(s) + 1 when there is none
RECURSIVE HostEnd(_, _)
HostEnd(s, i) ==
  IF i > Len(s) \/ SubSeq(s, i, i) \in {"/", "?", "#"} THEN i
  ELSE HostEnd(s, i + 1)

\* the number of characters of the scheme and "//" of an http(s) URL, 0 for
\* a string that has neither scheme
SchemeLen(s) ==
  IF Len(s) >= 8 /\ ToLowerCase(SubSeq(s, 1, 8)) = "https://" THEN 8
  ELSE IF Len(s) >= 7 /\ ToLowerCase(SubSeq(s, 1, 7)) = "http://" THEN 7
  ELSE 0

\* cleanReferrer: new URL(referrer).hostname, and the referrer itself when
\* the constructor throws; of the URLs, those of the schemes http and https
\* without port and user are parsed
cleanReferrer(referrer) ==
  LET n == SchemeLen(referrer)
      end == HostEnd(referrer, n + 1)
  IN IF n = 0 \/ end = n + 1 THEN referrer
     ELSE ToLowerCase(SubSeq(referrer, n + 1, end - 1))

\* clickMap.get(key) || 0
ClickMapGet(clickMap, key) == IF key \in DOMAIN clickMap THEN clickMap[key] ELSE 0

\* viewData.map(item => ({..., views, clicks})): the entries by group key
Entries(viewData, clickMap) ==
  [k \in DOMAIN viewData |->
     [views |-> viewData[k], clicks |-> ClickMapGet(clickMap, k)]]

\* the analyticsData that getProfileAnalytics builds from the query results
AnalyticsData(results) ==
  [profileViews |-> results["totalViews"],
   uniqueViews |-> results["uniqueViews"],
   totalClicks |-> results["totalClicks"],
   uniqueClicks |-> results["uniqueClicks"],
   geographicData |-> Entries(results["geoViews"], results["geoClicks"]),
   deviceData |-> Entries(results["deviceViews"], results["deviceClicks"]),
   referrerData |->
     [k \in DOMAIN results["referrerViews"] |->
        [referrer |-> cleanReferrer(k),
         views |-> results["referrerViews"][k],
         clicks |-> ClickMapGet(results["referrerClicks"], k)]]]

\* the report computed from the rows the Store holds now
ReportOfStore(profileId, start, end) ==
  AnalyticsData([q \in Queries |-> QueryResult(q, profileId, start, end)])

\* `analytics:${profileId}:${start.getTime()}:${end.getTime()}`
CacheKey(profileId, start, end) == <<"analytics", profileId, start, end>>

\* config.analytics.cacheTtl, in seconds
CacheTtl == 3600

\* client.setex(key, ttl, JSON.stringify(value)): the entry of the key, which
\* Redis drops ttl seconds later
SetEx(value, ttl) == [value |-> value, expires |-> now + ttl * MsPerSecond]

\* a key that would never expire
CachedForever(key) == key \in DOMAIN cache

\* client.get(key) !== null: the key was set and has not expired
Cached(key) == key \in DOMAIN cache /\ now < cache[key].expires

IdleReport ==
  [pc |-> "idle", profileId |-> NULL, start |-> 0, end |-> 0,
   pending |-> {}, results |-> <<>>, cacheErrors |-> {}, outcome |-> "none",
   data |-> <<>>]

\* getProfileAnalytics up to the answer of cacheService.get, which returns
\* null on an error of Redis; the calls are made one after the other
GetFromCache(r, profileId, start, end, cacheOk) ==
  LET key == CacheKey(profileId, start, end)
      c == [IdleReport EXCEPT !.profileId = profileId, !.start = start, !.end = end,
                              !.cacheErrors = IF cacheOk THEN {} ELSE {"get"}]
  IN /\ r = Len(report) + 1
     /\ IF r = 1 THEN TRUE ELSE report[r - 1].pc = "done"
     /\ report' = Append(report,
          IF cacheOk /\ Cached(key)
          THEN [c EXCEPT !.pc = "done", !.outcome = "returned", !.data = cache[key].value]
          ELSE [c EXCEPT !.pc = "queries", !.pending = Queries])
     /\ UNCHANGED <<storeVars, now, call, failures, chainDown, cache, socketVars, aggVars, tz,
                    stream, chainVars>>

\* one of the queries of Promise.all is answered by the Store, or fails
RunQuery(r, q, ok) ==
  /\ r \in DOMAIN report
  /\ report[r].pc = "queries"
  /\ q \in report[r].pending
  /\ ok \/ MayFail
  /\ failures' = IF ok THEN failures ELSE failures + 1
  /\ report' = [report EXCEPT ![r] =
       IF ok
       THEN [@ EXCEPT !.pending = @ \ {q},
                      !.results =
                        (q :> QueryResult(q, report[r].profileId, report[r].start,
                                          report[r].end)) @@ @]
       ELSE [@ EXCEPT !.pc = "done", !.pending = {}, !.outcome = "thrown"]]
  /\ UNCHANGED <<storeVars, now, call, chainDown, cache, socketVars, aggVars, tz, stream,
                 chainVars>>

\* the rest of getProfileAnalytics: analyticsData is built, cacheService.set
\* stores it or throws, the report is returned or the error rethrown
SetCache(r, cacheOk) ==
  LET c == report[r]
      analyticsData == AnalyticsData(c.results)
  IN /\ r \in DOMAIN report
     /\ c.pc = "queries"
     /\ c.pending = {}
     /\ cache' = IF cacheOk
                 THEN (CacheKey(c.profileId, c.start, c.end) :>
                         SetEx(analyticsData, CacheTtl)) @@ cache
                 ELSE cache
     /\ report' = [report EXCEPT ![r] =
          IF cacheOk
          THEN [c EXCEPT !.pc = "done", !.outcome = "returned", !.data = analyticsData]
          ELSE [c EXCEPT !.pc = "done", !.outcome = "thrown",
                         !.cacheErrors = @ \cup {"set"}]]
     /\ UNCHANGED <<storeVars, now, call, failures, chainDown, socketVars, aggVars, tz,
                    stream, chainVars>>

\* POST /view or /click served while reports are computed
TrackDuringReport(d) ==
  /\ Cardinality(profileView) + Cardinality(linkClick) < MaxReportEvents
  /\ TrackAt(d, now, now)
  /\ UNCHANGED <<now, call, aggVars>>

ReportRequests ==
  { ViewRequest("P1", "S", "ip-city", "ua-laptop", RefGoogle, NoTime),
    ClickRequest("P1", 0, "Home", "https://a.example", "S", "ip-city", "ua-laptop",
                 RefGoogle, NoTime) }

\* the time ranges of the reports: day 0
ReportRanges == { <<0, DayMs - 1>> }

InitReport ==
  /\ InitStore
  /\ InitRest
  /\ call = <<>>

NextReport ==
  \/ \E d \in ReportRequests : TrackDuringReport(d)
  \/ \E r \in 1..MaxReports, profileId \in Profiles, range \in ReportRanges,
        cacheOk \in BOOLEAN :
       GetFromCache(r, profileId, range[1], range[2], cacheOk)
  \/ \E r \in 1..MaxReports, q \in Queries, ok \in BOOLEAN : RunQuery(r, q, ok)
  \/ \E r \in 1..MaxReports, cacheOk \in BOOLEAN : SetCache(r, cacheOk)

SpecReport == InitReport /\ [][NextReport]_vars

\* C11: a getProfileAnalytics call in which cacheService.get or
\* cacheService.set failed, and no query of the Store did, does not fail: it
\* returns a report, as on a cache miss.
C11_CacheFailureNeverFailsTheCall ==
  \A r \in DOMAIN report :
    (report[r].pc = "done" /\ report[r].cacheErrors # {} /\ failures = 0)
      => report[r].outcome = "returned"

\* every entry of the list has no more views than the report counts in all
EntriesWithin(entries, total) == \A k \in DOMAIN entries : entries[k].views <= total

\* C17: in every report returned by getProfileAnalytics each entry of
\* geographicData, deviceData and referrerData has views <= profileViews,
\* and uniqueViews <= profileViews and uniqueClicks <= totalClicks.
C17_ReportEntriesWithinTotals ==
  \A r \in DOMAIN report :
    report[r].outcome = "returned" =>
      LET data == report[r].data
      IN /\ EntriesWithin(data.geographicData, data.profileViews)
         /\ EntriesWithin(data.deviceData, data.profileViews)
         /\ EntriesWithin(data.referrerData, data.profileViews)
         /\ data.uniqueViews <= data.profileViews
         /\ data.uniqueClicks <= data.totalClicks

\* the message emitted last
LastOf(messages) == messages[Len(messages)]

\* C12: a subscribe:profile P whose profile-existence check fails sends the
\* socket an error of code PROFILE_NOT_FOUND and does not add it to the
\* subscribers of P; one whose check succeeds adds the socket to the
\* subscribers of P and sends it an analytics:realtime message for P.
C12_SubscribeAnswers ==
  [][\A s \in Sockets, profileId \in Profiles, outcome \in ChainOutcomes, ok \in BOOLEAN :
       Subscribe(s, profileId, outcome, ok) =>
         IF profileExists(outcome)
         THEN /\ s \in rooms'[profileId]
              /\ LastOf(outbox'[s]) = Message("analytics:realtime", profileId, NULL)
         ELSE /\ rooms'[profileId] = rooms[profileId]
              /\ LastOf(outbox'[s]) = Message("error", NULL, "PROFILE_NOT_FOUND")]_vars

\* ------------------------------------------------------ Date buckets
\* the time zones the process may run in: UTC and UTC-1
TimeZones == {0, -3600000}

InitZone ==
  /\ InitStore
  /\ InitServices
  /\ tz \in TimeZones
  /\ call = <<>>

SpecZone == InitZone /\ [][NextAgg]_vars

\* the keys of a table whose row is created or changed by the step
WrittenKeys(old, new) == { k \in DOMAIN new : k \notin DOMAIN old \/ new[k] # old[k] }

\* the events an Aggregator run that writes date key `date` counts, all of
\* them being of the UTC day that starts at `date`
CountsUtcDay(date) ==
  /\ \A r \in InDay(profileView, date, date + DayMs) : UtcMidnight(r.timestamp) = date
  /\ \A r \in InDay(linkClick, date, date + DayMs) : UtcMidnight(r.timestamp) = date

\* the step is an ingest call: the date keys it writes to DailyStats and
\* LinkStats are the UTC midnight of the timestamp of the event it stores
IngestWritesUtcDay ==
  \A r \in (profileView' \ profileView) :
    /\ \A k \in WrittenKeys(dailyStats, dailyStats') : k[2] = UtcMidnight(r.timestamp)
    /\ \A k \in WrittenKeys(linkStats, linkStats') : k[3] = UtcMidnight(r.timestamp)

IngestClickWritesUtcDay ==
  \A r \in (linkClick' \ linkClick) :
    /\ \A k \in WrittenKeys(dailyStats, dailyStats') : k[2] = UtcMidnight(r.timestamp)
    /\ \A k \in WrittenKeys(linkStats, linkStats') : k[3] = UtcMidnight(r.timestamp)

\* the step is an Aggregator run: the date keys it writes to the five
\* rollup tables are the UTC midnight of the timestamps of the events counted
AggregatorWritesUtcDay ==
  aggRuns' = aggRuns + 1 =>
    /\ \A k \in WrittenKeys(dailyStats, dailyStats') : CountsUtcDay(k[2])
    /\ \A k \in WrittenKeys(linkStats, linkStats') : CountsUtcDay(k[3])
    /\ \A k \in WrittenKeys(referrerStats, referrerStats') : CountsUtcDay(k[3])
    /\ \A row \in geoStats' \ geoStats : CountsUtcDay(row.date)
    /\ \A row \in deviceStats' \ deviceStats : CountsUtcDay(row.date)

\* C13: every date key written to DailyStats and LinkStats by Ingest, and to
\* the five rollup tables by the Aggregator, is the midnight-UTC truncation
\* of the timestamp of the events it counts, whatever the time zone of the
\* process and the time at which the event was ingested.
C13_DateKeysAreUtcMidnights ==
  [][IngestWritesUtcDay /\ IngestClickWritesUtcDay /\ AggregatorWritesUtcDay]_vars

\* endSession has ended the session: endTime is set and duration is the
\* whole seconds from startTime to endTime
EndedNow(row) ==
  /\ row.endTime # NoTime
  /\ row.duration = (row.endTime - row.startTime) \div MsPerSecond

\* C14: endSession on a Session whose endTime is unset sets endTime and
\* duration = endTime - startTime; on a session already ended it changes
\* nothing (endTime and duration keep their values); on an unknown sessionId
\* it changes nothing.
C14_EndSessionIsIdempotent ==
  [][\A sessionId \in DOMAIN session \cup ClientSessions, drift \in ClockDrift :
       endSession(sessionId, drift) =>
         IF sessionId \in DOMAIN session
         THEN IF session[sessionId].endTime = NoTime
              THEN EndedNow(session'[sessionId])
              ELSE session' = session
         ELSE session' = session]_vars

\* ------------------------------------------------------ Frame of Ingest
\* the routes of Ingest, POST /session/end included
NextFrame ==
  \/ NextRoutes
  \/ \E sessionId \in DOMAIN session \cup ClientSessions : endSession(sessionId, 0)

SpecFrame == InitRoutes /\ [][NextFrame]_vars

\* no row of the table is deleted by the step
KeepsRows(old, new) == DOMAIN old \subseteq DOMAIN new

\* the columns of a DailyStats row that only the Aggregator computes
AggregatorColumns(row) ==
  <<row.uniqueViews, row.uniqueClicks, row.sessions, row.avgDuration, row.bounceRate>>

\* C15: no step of trackProfileView, trackLinkClick, batchTrackViews or
\* endSession deletes a row or writes GeoStats, DeviceStats or ReferrerStats,
\* and on an existing DailyStats row it leaves uniqueViews, uniqueClicks,
\* sessions, avgDuration and bounceRate unchanged.
C15_IngestFrame ==
  [][/\ profileView \subseteq profileView'
     /\ linkClick \subseteq linkClick'
     /\ KeepsRows(session, session')
     /\ KeepsRows(dailyStats, dailyStats')
     /\ KeepsRows(linkStats, linkStats')
     /\ UNCHANGED <<geoStats, deviceStats, referrerStats>>
     /\ \A k \in DOMAIN dailyStats :
          AggregatorColumns(dailyStats'[k]) = AggregatorColumns(dailyStats[k])]_vars

\* an existing DailyStats row was updated by a second event and endSession
\* ended a session
C15_Witness ==
  /\ \E k \in DOMAIN dailyStats : dailyStats[k].views + dailyStats[k].clicks >= 2
  /\ \E sid \in DOMAIN session :
       session[sid].endTime # NoTime /\ session[sid].pageViews + session[sid].linkClicks = 1

\* ------------------------------------------- Aggregator with failing keys
\* a loop whose try block is outside the for: the groups before the first
\* one that throws
SurvivingUntilFailure(groups, failed) ==
  LET bad == { i \in DOMAIN groups : groups[i] \in failed }
  IN IF bad = {} THEN groups
     ELSE SubSeq(groups, 1, (CHOOSE i \in bad : \A j \in bad : i <= j) - 1)

\* for (const group of groups) { try { ... } catch { log } }: the groups
\* whose try block runs to its end, those of `failed` having thrown
Surviving(groups, failed) == SelectSeq(groups, LAMBDA g : g \notin failed)

\* a table keyed by the upsert key after a loop in which the try blocks of
\* the keys `failed` threw: these rows are as before the run
KeepFailed(old, new, failed) ==
  [k \in { x \in DOMAIN new : x \notin failed \/ x \in DOMAIN old } |->
     IF k \in failed THEN old[k] ELSE new[k]]

\* runAllAggregations in which the try block of some keys throws:
\* `order` holds the orders in which the groupBy queries return their groups,
\* `failed` the keys of each rollup whose try block throws
runAllAggregationsCatching(order, failed) ==
  LET today == StartOfDay(now)
      yesterday == today - DayMs
  IN /\ dailyStats' =
          KeepFailed(dailyStats, aggregateDailyStats(dailyStats, yesterday, today),
                     failed.daily)
     /\ linkStats' =
          aggregateLinkStats(linkStats, Surviving(order.link, failed.link), 1, yesterday,
                             today)
     /\ geoStats' =
          aggregateGeoStats(geoStats, Surviving(order.geoViews, failed.geo),
                            order.geoClicks, 1, yesterday, today)
     /\ deviceStats' =
          aggregateDeviceStats(deviceStats, Surviving(order.deviceViews, failed.device),
                               order.deviceClicks, 1, yesterday, today)
     /\ referrerStats' =
          KeepFailed(referrerStats,
                     aggregateReferrerStats(referrerStats, order.referrerClicks, yesterday,
                                            today),
                     failed.referrer)
     /\ failures' = failures + Cardinality(failed.daily) + Cardinality(failed.link)
                      + Cardinality(failed.geo) + Cardinality(failed.device)
                      + Cardinality(failed.referrer)
     /\ failures' <= MaxFailures
     /\ aggRuns' = aggRuns + 1
     /\ aggDays' = aggDays \cup {yesterday}
     /\ UNCHANGED <<rawVars, nextId, now, call, chainDown, serviceVars, socketVars>>

\* the keys of the five loops of a run for the day [yesterday, today)
DailyKeys(yesterday, today) ==
  { <<r.profileId, yesterday>> : r \in InDay(profileView, yesterday, today) }

ReferrerKeys(yesterday, today) ==
  { <<g.profileId, g.referrer, yesterday>> : g \in ReferrerGroups(profileView, yesterday, today) }

\* the orders in which the groupBy queries of a run may return their groups
GroupOrders(yesterday, today) ==
  [link : Perms(LinkGroups(yesterday, today)),
   geoViews : Perms(GeoGroups(profileView, yesterday, today)),
   geoClicks : Perms(GeoGroups(linkClick, yesterday, today)),
   deviceViews : Perms(DeviceGroups(profileView, yesterday, today)),
   deviceClicks : Perms(DeviceGroups(linkClick, yesterday, today)),
   referrerClicks : Perms(ReferrerGroups(linkClick, yesterday, today))]

\* the keys of a run whose try block may throw
FailedKeys(yesterday, today) ==
  [daily : SUBSET DailyKeys(yesterday, today),
   link : SUBSET LinkGroups(yesterday, today),
   geo : SUBSET GeoGroups(profileView, yesterday, today),
   device : SUBSET DeviceGroups(profileView, yesterday, today),
   referrer : SUBSET ReferrerKeys(yesterday, today)]

RunAggregatorCatching ==
  /\ aggRuns < MaxAggRuns
  /\ \E order \in GroupOrders(StartOfDay(now) - DayMs, StartOfDay(now)),
        failed \in FailedKeys(StartOfDay(now) - DayMs, StartOfDay(now)) :
       runAllAggregationsCatching(order, failed)

NextAggFail ==
  \/ \E d \in AggRequests :
       /\ Cardinality(profileView) + Cardinality(linkClick) < MaxAggEvents
       /\ TrackAlone(d)
  \/ NextDay
  \/ RunAggregatorCatching

SpecAggFail == InitAgg /\ [][NextAggFail]_vars

\* the rollup rows of the keys that did not fail are there after the run,
\* with the counts of the day
RestIsUpserted(failed) ==
  LET today == StartOfDay(now)
      yesterday == today - DayMs
      views == InDay(profileView, yesterday, today)
      clicks == InDay(linkClick, yesterday, today)
  IN /\ \A k \in DailyKeys(yesterday, today) \ failed.daily :
          /\ k \in DOMAIN dailyStats'
          /\ dailyStats'[k].views = Cardinality({ r \in views : r.profileId = k[1] })
          /\ dailyStats'[k].uniqueViews = DistinctSessions({ r \in views : r.profileId = k[1] })
     /\ \A g \in LinkGroups(yesterday, today) \ failed.link :
          LET key == <<g.profileId, g.linkIndex, yesterday>>
          IN /\ key \in DOMAIN linkStats'
             /\ \E h \in LinkGroups(yesterday, today) \ failed.link :
                  /\ key = <<h.profileId, h.linkIndex, yesterday>>
                  /\ linkStats'[key].clicks = GroupCount(clicks, h)
     /\ \A g \in GeoGroups(profileView, yesterday, today) \ failed.geo :
          \E r \in geoStats' :
            /\ r.profileId = g.profileId /\ r.country = g.country /\ r.date = yesterday
            /\ r.city \in {g.city, OrElse(g.city, "")}
            /\ r.views = GroupCount(views, g)
     /\ \A g \in DeviceGroups(profileView, yesterday, today) \ failed.device :
          \E r \in deviceStats' :
            /\ r.profileId = g.profileId /\ r.deviceType = g.deviceType
            /\ r.date = yesterday
            /\ r.browser \in {g.browser, OrElse(g.browser, "")}
            /\ r.views = GroupCount(views, g)
     /\ \A k \in ReferrerKeys(yesterday, today) \ failed.referrer :
          /\ k \in DOMAIN referrerStats'
          /\ referrerStats'[k].views =
               GroupCount(views, [profileId |-> k[1], referrer |-> k[2]])

\* C16: when computing or upserting the rollup of one key fails during a
\* run, every other key of the same rollup and all keys of the other four
\* rollups are still upserted, and the run comes to its end.
C16_FailedKeyDoesNotStopTheRun ==
  [][\A failed \in FailedKeys(StartOfDay(now) - DayMs, StartOfDay(now)) :
       (/\ aggRuns' = aggRuns + 1
        /\ failures' = failures + Cardinality(failed.daily) + Cardinality(failed.link)
                         + Cardinality(failed.geo) + Cardinality(failed.device)
                         + Cardinality(failed.referrer)
        /\ \E order \in GroupOrders(StartOfDay(now) - DayMs, StartOfDay(now)) :
             runAllAggregationsCatching(order, failed))
       => RestIsUpserted(failed)]_vars

\* a run in which one key failed has come to its end: of the two device
\* groups of the day one row is there, and the DailyStats row was computed
C16_Witness ==
  LET today == StartOfDay(now)
      yesterday == today - DayMs
  IN /\ aggRuns = 1
     /\ failures = 1
     /\ Cardinality(DeviceGroups(profileView, yesterday, today)) = 2
     /\ Cardinality(deviceStats) = 1
     /\ <<"P1", yesterday>> \in DOMAIN dailyStats
     /\ dailyStats[<<"P1", yesterday>>].uniqueViews = 2

\* ------------------------------------------------- GET /stream/:profileId
\* a stream whose handler awaits suiService.profileExists
NewStream ==
  [pc |-> "checking", closed |-> FALSE, listening |-> FALSE, timer |-> FALSE,
   inflight |-> FALSE, ended |-> FALSE, frames |-> 0, late |-> 0]

\* res.write of a data frame: after res.end() the response refuses it,
\* after the connection has closed it is one more frame written late
WriteFrame(st) ==
  IF st.ended THEN st
  ELSE [st EXCEPT !.frames = st.frames + 1,
                  !.late = IF st.closed THEN st.late + 1 ELSE st.late]

\* the request arrives
OpenStream ==
  /\ Len(stream) < MaxStreams
  /\ stream' = Append(stream, NewStream)
  /\ UNCHANGED <<storeVars, now, call, failures, chainDown, tz, reportVars, chainVars, socketVars,
                 aggVars>>

\* profileExists answers: 404, or the headers are written and the handler
\* awaits the initial getRealTimeAnalytics
ProfileChecked(i, outcome) ==
  /\ i \in DOMAIN stream
  /\ stream[i].pc = "checking"
  /\ stream' = [stream EXCEPT ![i] =
                 IF profileExists(outcome)
                 THEN [stream[i] EXCEPT !.pc = "initial"]
                 ELSE [stream[i] EXCEPT !.pc = "404", !.ended = TRUE]]
  /\ UNCHANGED <<storeVars, now, call, failures, chainDown, tz, reportVars, chainVars, socketVars,
                 aggVars>>

\* the initial getRealTimeAnalytics answers: the frame is written, the
\* interval is set and only now are the 'close' and 'end' listeners added
InitialSent(i, ok) ==
  /\ i \in DOMAIN stream
  /\ stream[i].pc = "initial"
  /\ stream' = [stream EXCEPT ![i] =
                 IF ok
                 THEN [WriteFrame(stream[i]) EXCEPT !.pc = "streaming", !.timer = TRUE,
                                                    !.listening = TRUE]
                 ELSE [stream[i] EXCEPT !.pc = "500"]]
  /\ UNCHANGED <<storeVars, now, call, failures, chainDown, tz, reportVars, chainVars, socketVars,
                 aggVars>>

\* the interval fires: its callback awaits getRealTimeAnalytics
StreamTick(i) ==
  /\ i \in DOMAIN stream
  /\ stream[i].timer
  /\ ~stream[i].inflight
  /\ stream[i].frames < MaxFrames
  /\ stream' = [stream EXCEPT ![i].inflight = TRUE]
  /\ UNCHANGED <<storeVars, now, call, failures, chainDown, tz, reportVars, chainVars, socketVars,
                 aggVars>>

\* the query of a tick answers: the frame is written, or the catch block
\* clears the interval and ends the response
StreamUpdate(i, ok) ==
  /\ i \in DOMAIN stream
  /\ stream[i].inflight
  /\ stream' = [stream EXCEPT ![i] =
                 IF ok
                 THEN [WriteFrame(stream[i]) EXCEPT !.inflight = FALSE]
                 ELSE [stream[i] EXCEPT !.inflight = FALSE, !.timer = FALSE,
                                        !.ended = TRUE]]
  /\ UNCHANGED <<storeVars, now, call, failures, chainDown, tz, reportVars, chainVars, socketVars,
                 aggVars>>

\* the client connection closes: the listeners, if they were added, clear
\* the interval and end the response
ClientClose(i) ==
  /\ i \in DOMAIN stream
  /\ ~stream[i].closed
  /\ stream[i].pc \in {"checking", "initial", "streaming"}
  /\ stream' = [stream EXCEPT ![i] =
                 IF stream[i].listening
                 THEN [stream[i] EXCEPT !.closed = TRUE, !.timer = FALSE, !.ended = TRUE]
                 ELSE [stream[i] EXCEPT !.closed = TRUE]]
  /\ UNCHANGED <<storeVars, now, call, failures, chainDown, tz, reportVars, chainVars, socketVars,
                 aggVars>>

InitStream ==
  /\ InitStore
  /\ InitRest
  /\ call = <<>>

NextStream ==
  \/ OpenStream
  \/ \E i \in 1..MaxStreams, outcome \in ChainOutcomes : ProfileChecked(i, outcome)
  \/ \E i \in 1..MaxStreams, ok \in BOOLEAN : InitialSent(i, ok)
  \/ \E i \in 1..MaxStreams : StreamTick(i)
  \/ \E i \in 1..MaxStreams, ok \in BOOLEAN : StreamUpdate(i, ok)
  \/ \E i \in 1..MaxStreams : ClientClose(i)

SpecStream == InitStream /\ [][NextStream]_vars

\* C18: once the client connection of a stream has closed, its timer is
\* cancelled and no further data frame is written to the response, also
\* when the close happens while the initial query or a tick's query is in
\* flight.
C18_ClosedStreamIsSilent ==
  \A i \in DOMAIN stream :
    stream[i].closed => ~stream[i].timer /\ stream[i].late = 0

\* ------------------------------------------ Move: linktree::profile
EProfileNotFound == 2
ENotAuthorized == 3
EInvalidUsername == 4
ETooManyLinks == 5
EUsernameAlreadyTaken == 6
MAX_LINKS == 50
MAX_USERNAME_LENGTH == 30
MAX_BIO_LENGTH == 500
MAX_TITLE_LENGTH == 100

Addresses == {"U1", "U2"}

RECURSIVE Repeat(_, _)
\* the string of n copies of s
Repeat(s, n) ==
  IF n = 0 THEN ""
  ELSE IF n % 2 = 0 THEN LET half == Repeat(s, n \div 2) IN half \o half
  ELSE s \o Repeat(s, n - 1)

\* the strings passed to the entry functions: empty, short, and one byte
\* longer than each limit
Usernames == {"", "alice", Repeat("u", MAX_USERNAME_LENGTH + 1)}
Bios == {"bio", Repeat("b", MAX_BIO_LENGTH + 1)}
Titles == {"Home", Repeat("t", MAX_TITLE_LENGTH + 1)}

\* the outcomes of a transaction; an abort leaves every object as it was
Success(fn) == [fn |-> fn, status |-> "success", code |-> 0]
Abort(fn, code) == [fn |-> fn, status |-> "abort", code |-> code]
\* table::add of a key that is present, u64 subtraction below zero
TableAbort(fn) == [fn |-> fn, status |-> "abort in sui::table", code |-> 0]
ArithmeticAbort(fn) == [fn |-> fn, status |-> "arithmetic error", code |-> 0]

\* the theme of a new profile
DefaultTheme ==
  [background_color |-> "#ffffff", text_color |-> "#000000", button_color |-> "#3b82f6",
   button_text_color |-> "#ffffff", font_family |-> "Inter", border_radius |-> 8]

\* the SocialLinks dynamic field of a new profile
EmptySocial ==
  [twitter |-> "", instagram |-> "", youtube |-> "", github |-> "", linkedin |-> "",
   tiktok |-> "", discord |-> ""]

\* the Analytics dynamic field of a new profile
EmptyAnalytics == [daily_views |-> <<>>, link_clicks |-> <<>>, referrers |-> <<>>]

\* Profile { ... } of the create functions, transferred to the sender:
\* holder is the address that owns the object
NewProfile(sender, username, display_name, bio, avatar_url) ==
  [holder |-> sender, owner |-> sender, username |-> username,
   display_name |-> display_name, bio |-> bio, avatar_url |-> avatar_url,
   nft_avatar_id |-> "", theme |-> DefaultTheme, links |-> <<>>, created_at |-> now,
   updated_at |-> now, view_count |-> 0, verified |-> FALSE, walrus_site_id |-> "",
   social |-> EmptySocial, analytics |-> EmptyAnalytics]

\* object::new: an id no live profile has
FreshId == CHOOSE i \in 1..MaxProfiles : i \notin DOMAIN profiles

\* the check of the create functions that never finds a username
UsernameNeverTaken(username) == FALSE

\* table::contains(&registry.profiles, username)
UsernameTaken(username) == username \in DOMAIN registry.profiles

\* the asserts of the three create functions, in their order: the code of
\* the first that fails, 0 when all pass
CreateAbortCode(sender, username, bio) ==
  IF sender \in registry.blocked_users THEN ENotAuthorized
  ELSE IF Len(username) > 0 /\ Len(username) > MAX_USERNAME_LENGTH THEN EInvalidUsername
  ELSE IF Len(username) > 0 /\ username \in registry.blocked_usernames
       THEN EUsernameAlreadyTaken
  ELSE IF Len(username) > 0 /\ UsernameTaken(username) THEN EUsernameAlreadyTaken
  ELSE IF Len(bio) > MAX_BIO_LENGTH THEN EInvalidUsername
  ELSE 0

\* the three entry points that create a profile
CreateFunctions == {"create_profile", "create_profile_with_nft", "create_profile_with_avatar"}

\* create_profile, create_profile_with_nft, create_profile_with_avatar: the
\* avatar is empty, the Walrus URL of the NFT minted, or the URL passed
Create(fn, sender, username, display_name, bio, url) ==
  LET code == CreateAbortCode(sender, username, bio)
      avatar_url == IF fn = "create_profile" THEN "" ELSE url
  IN /\ fn \in CreateFunctions
     /\ Cardinality(DOMAIN profiles) < MaxProfiles
     /\ fn = "create_profile_with_nft" => Len(nfts) < MaxNfts
     /\ IF code # 0
        THEN /\ lastTx' = Abort(fn, code)
             /\ UNCHANGED <<registry, profiles, nfts>>
        ELSE IF Len(username) > 0 /\ username \in DOMAIN registry.profiles
        THEN /\ lastTx' = TableAbort(fn)
             /\ UNCHANGED <<registry, profiles, nfts>>
        ELSE /\ lastTx' = Success(fn)
             /\ nfts' = IF fn = "create_profile_with_nft"
                        THEN Append(nfts, [owner |-> sender, image_url |-> url])
                        ELSE nfts
             /\ profiles' = (FreshId :> NewProfile(sender, username, display_name, bio,
                                                   avatar_url)) @@ profiles
             /\ registry' =
                  [registry EXCEPT
                     !.profiles = IF Len(username) > 0
                                  THEN (username :> sender) @@ registry.profiles
                                  ELSE registry.profiles,
                     !.total_profiles = registry.total_profiles + 1]
     /\ UNCHANGED <<storeVars, now, call, failures, chainDown, tz, reportVars, stream,
                    mutations, socketVars, aggVars>>

\* a table without the key
Without(table, key) == [k \in DOMAIN table \ {key} |-> table[k]]

\* a deletion that would leave the counter of the registry as it is
delete_profileKeepingCount(sender, id) ==
  /\ id \in DOMAIN profiles
  /\ sender = profiles[id].holder
  /\ IF sender # profiles[id].owner
     THEN /\ lastTx' = Abort("delete_profile", ENotAuthorized)
          /\ UNCHANGED <<registry, profiles>>
     ELSE /\ lastTx' = Success("delete_profile")
          /\ registry' =
               [registry EXCEPT
                  !.profiles = IF /\ Len(profiles[id].username) > 0
                                  /\ profiles[id].username \in DOMAIN registry.profiles
                               THEN Without(registry.profiles, profiles[id].username)
                               ELSE registry.profiles]
          /\ profiles' = Without(profiles, id)
  /\ UNCHANGED <<storeVars, now, call, failures, chainDown, tz, reportVars, stream, nfts,
                 mutations, socketVars, aggVars>>

\* delete_profile / delete_profile_tx: the profile is passed by value, which
\* only the address holding the object can do
delete_profile(sender, id) ==
  /\ id \in DOMAIN profiles
  /\ sender = profiles[id].holder
  /\ IF sender # profiles[id].owner
     THEN /\ lastTx' = Abort("delete_profile", ENotAuthorized)
          /\ UNCHANGED <<registry, profiles>>
     ELSE IF registry.total_profiles = 0
     THEN /\ lastTx' = ArithmeticAbort("delete_profile")
          /\ UNCHANGED <<registry, profiles>>
     ELSE /\ lastTx' = Success("delete_profile")
          /\ registry' =
               [registry EXCEPT
                  !.profiles = IF /\ Len(profiles[id].username) > 0
                                  /\ profiles[id].username \in DOMAIN registry.profiles
                               THEN Without(registry.profiles, profiles[id].username)
                               ELSE registry.profiles,
                  !.total_profiles = registry.total_profiles - 1]
          /\ profiles' = Without(profiles, id)
  /\ UNCHANGED <<storeVars, now, call, failures, chainDown, tz, reportVars, stream, nfts,
                 mutations, socketVars, aggVars>>

\* transfer_profile: the object goes to the recipient, its fields as they are
transfer_profile(sender, id, recipient) ==
  /\ id \in DOMAIN profiles
  /\ sender = profiles[id].holder
  /\ profiles' = [profiles EXCEPT ![id].holder = recipient]
  /\ lastTx' = Success("transfer_profile")
  /\ UNCHANGED <<storeVars, now, call, failures, chainDown, tz, reportVars, stream, registry,
                 nfts, mutations, socketVars, aggVars>>

\* block_user, unblock_user, block_username, unblock_username, by the
\* holder of the AdminCap
Admin(fn, subject) ==
  /\ registry' =
       CASE fn = "block_user" ->
              [registry EXCEPT !.blocked_users = registry.blocked_users \cup {subject}]
         [] fn = "unblock_user" ->
              [registry EXCEPT !.blocked_users = registry.blocked_users \ {subject}]
         [] fn = "block_username" ->
              [registry EXCEPT !.blocked_usernames = registry.blocked_usernames \cup {subject}]
         [] fn = "unblock_username" ->
              [registry EXCEPT !.blocked_usernames = registry.blocked_usernames \ {subject}]
  /\ lastTx' = Success(fn)
  /\ UNCHANGED <<storeVars, now, call, failures, chainDown, tz, reportVars, stream, profiles,
                 nfts, mutations, socketVars, aggVars>>

\* Link { title, url, icon, clicks: 0, enabled: true }
NewLink(title, url, icon) ==
  [title |-> title, url |-> url, icon |-> icon, clicks |-> 0, enabled |-> TRUE]

\* vector::remove and vector::insert at a 0-based index
VectorRemove(v, i) == SubSeq(v, 1, i) \o SubSeq(v, i + 2, Len(v))
VectorInsert(v, e, i) == SubSeq(v, 1, i) \o <<e>> \o SubSeq(v, i + 1, Len(v))

\* a gate that lets the holder of the object through
IsHolder(sender, p) == sender = p.holder

\* tx_context::sender(ctx) == profile.owner
IsOwner(sender, p) == sender = p.owner

\* the functions whose first assert is the owner gate
OwnerGated ==
  {"add_link", "remove_link", "toggle_link", "update_link", "reorder_link",
   "update_profile", "update_nft_avatar", "update_profile_picture_nft", "update_theme",
   "update_social_links", "set_walrus_site"}

\* the asserts of an owner-gated function, in their order: the code of the
\* first that fails, 0 when all pass
MutateAbortCode(c, sender, p) ==
  IF ~IsOwner(sender, p) THEN ENotAuthorized
  ELSE CASE c.fn = "add_link" ->
              IF ~(Len(p.links) < MAX_LINKS) THEN ETooManyLinks
              ELSE IF Len(c.title) > MAX_TITLE_LENGTH THEN EInvalidUsername
              ELSE 0
         [] c.fn \in {"remove_link", "toggle_link"} ->
              IF ~(c.index < Len(p.links)) THEN EProfileNotFound ELSE 0
         [] c.fn = "update_link" ->
              IF ~(c.index < Len(p.links)) THEN EProfileNotFound
              ELSE IF Len(c.title) > MAX_TITLE_LENGTH THEN EInvalidUsername
              ELSE 0
         [] c.fn = "reorder_link" ->
              IF ~(c.index < Len(p.links)) THEN EProfileNotFound
              ELSE IF ~(c.new_index < Len(p.links)) THEN EProfileNotFound
              ELSE 0
         [] c.fn = "update_profile" ->
              IF Len(c.bio) > MAX_BIO_LENGTH THEN EInvalidUsername ELSE 0
         [] OTHER -> 0

\* the profile after the body of an owner-gated function
Mutated(c, p) ==
  CASE c.fn = "add_link" ->
         [p EXCEPT !.links = Append(p.links, NewLink(c.title, c.url, c.icon)),
                   !.updated_at = now]
    [] c.fn = "remove_link" ->
         [p EXCEPT !.links = VectorRemove(p.links, c.index), !.updated_at = now]
    [] c.fn = "toggle_link" ->
         [p EXCEPT !.links[c.index + 1].enabled = ~p.links[c.index + 1].enabled,
                   !.updated_at = now]
    [] c.fn = "update_link" ->
         [p EXCEPT !.links[c.index + 1].title = c.title,
                   !.links[c.index + 1].url = c.url,
                   !.links[c.index + 1].icon = c.icon,
                   !.updated_at = now]
    [] c.fn = "reorder_link" ->
         IF c.index # c.new_index
         THEN [p EXCEPT !.links = VectorInsert(VectorRemove(p.links, c.index),
                                               p.links[c.index + 1], c.new_index),
                        !.updated_at = now]
         ELSE p
    [] c.fn = "update_profile" ->
         [p EXCEPT !.display_name = c.display_name, !.bio = c.bio,
                   !.avatar_url = c.avatar_url, !.updated_at = now]
    [] c.fn = "update_nft_avatar" ->
         [p EXCEPT !.nft_avatar_id = c.nft_avatar_id, !.avatar_url = c.avatar_url,
                   !.updated_at = now]
    [] c.fn = "update_profile_picture_nft" ->
         [p EXCEPT !.avatar_url = c.avatar_url, !.updated_at = now]
    [] c.fn = "update_theme" ->
         [p EXCEPT !.theme = c.theme, !.updated_at = now]
    [] c.fn = "update_social_links" ->
         [p EXCEPT !.social.twitter = c.twitter, !.social.instagram = c.instagram,
                   !.social.youtube = c.youtube, !.social.github = c.github,
                   !.social.linkedin = c.linkedin, !.updated_at = now]
    [] c.fn = "set_walrus_site" ->
         [p EXCEPT !.walrus_site_id = c.site_id, !.updated_at = now]

\* an owner-gated function called on the profile id, which only the address
\* holding the object can pass
Mutate(c, sender, id) ==
  LET code == MutateAbortCode(c, sender, profiles[id])
  IN /\ id \in DOMAIN profiles
     /\ sender = profiles[id].holder
     /\ c.fn \in OwnerGated
     /\ mutations < MaxMutations
     /\ c.fn = "update_profile_picture_nft" => Len(nfts) < MaxNfts
     /\ IF code # 0
        THEN /\ lastTx' = Abort(c.fn, code)
             /\ UNCHANGED <<profiles, nfts, mutations>>
        ELSE /\ lastTx' = Success(c.fn)
             /\ profiles' = [profiles EXCEPT ![id] = Mutated(c, profiles[id])]
             /\ nfts' = IF c.fn = "update_profile_picture_nft"
                        THEN Append(nfts, [owner |-> sender, image_url |-> c.avatar_url])
                        ELSE nfts
             /\ mutations' = mutations + 1
     /\ UNCHANGED <<storeVars, now, call, failures, chainDown, tz, reportVars, stream,
                    registry, socketVars, aggVars>>

\* the calls of the owner-gated functions
MutatorCalls ==
  { [fn |-> "add_link", title |-> t, url |-> "https://a.example", icon |-> "i"]
      : t \in Titles }
  \cup { [fn |-> f, index |-> i] : f \in {"remove_link", "toggle_link"}, i \in {0, 1} }
  \cup { [fn |-> "update_link", index |-> 0, title |-> t, url |-> "https://b.example",
          icon |-> "j"] : t \in Titles }
  \cup { [fn |-> "reorder_link", index |-> i, new_index |-> j] : i \in {0, 1}, j \in {0, 1} }
  \cup { [fn |-> "update_profile", display_name |-> "Al", bio |-> b,
          avatar_url |-> "https://w.example/1"] : b \in Bios }
  \cup { [fn |-> "update_nft_avatar", nft_avatar_id |-> "0xn",
          avatar_url |-> "https://w.example/2"],
         [fn |-> "update_profile_picture_nft", avatar_url |-> "https://w.example/3"],
         [fn |-> "update_theme", theme |-> [DefaultTheme EXCEPT !.font_family = "Mono"]],
         [fn |-> "update_social_links", twitter |-> "@al", instagram |-> "", youtube |-> "",
          github |-> "al", linkedin |-> ""],
         [fn |-> "set_walrus_site", site_id |-> "site-1"] }

InitChain ==
  /\ InitStore
  /\ InitRest
  /\ call = <<>>

\* the registry: profiles are created, transferred and deleted, users and
\* usernames blocked
NextChain ==
  \/ \E fn \in CreateFunctions, sender \in Addresses, username \in Usernames, bio \in Bios :
       Create(fn, sender, username, "Alice", bio, "https://w.example/0")
  \/ \E sender \in Addresses, id \in 1..MaxProfiles : delete_profile(sender, id)
  \/ \E sender \in Addresses, id \in 1..MaxProfiles, recipient \in Addresses :
       transfer_profile(sender, id, recipient)
  \/ \E fn \in {"block_user", "unblock_user"} : Admin(fn, "U2")
  \/ \E fn \in {"block_username", "unblock_username"} : Admin(fn, "alice")

SpecChain == InitChain /\ [][NextChain]_vars

\* the profiles: they are created, transferred and mutated
NextProfile ==
  \/ \E fn \in CreateFunctions, sender \in Addresses :
       Create(fn, sender, "", "Alice", "bio", "https://w.example/0")
  \/ \E sender \in Addresses, id \in 1..MaxProfiles, recipient \in Addresses :
       transfer_profile(sender, id, recipient)
  \/ \E c \in MutatorCalls, sender \in Addresses, id \in 1..MaxProfiles : Mutate(c, sender, id)

SpecProfile == InitChain /\ [][NextProfile]_vars

\* no two live profiles share a non-empty username
UsernamesAreUnique ==
  \A i, j \in DOMAIN profiles :
    i # j /\ Len(profiles[i].username) > 0 => profiles[i].username # profiles[j].username

\* C19 as stated: a create function called with a non-empty username that is
\* already registered aborts with EUsernameAlreadyTaken and changes nothing,
\* and after any sequence of create and delete operations no two live
\* profiles share a non-empty username.
C19_DuplicateUsernameAborts ==
  /\ [][\A fn \in CreateFunctions, sender \in Addresses, username \in Usernames, bio \in Bios :
          (/\ Len(username) > 0
           /\ username \in DOMAIN registry.profiles
           /\ Create(fn, sender, username, "Alice", bio, "https://w.example/0"))
          => /\ lastTx' = Abort(fn, EUsernameAlreadyTaken)
             /\ UNCHANGED <<registry, profiles, nfts>>]_vars
  /\ []UsernamesAreUnique

\* C19 amended: a create function called by a sender that is not blocked
\* with a non-empty username that is already registered aborts with
\* EUsernameAlreadyTaken and changes nothing (a blocked sender aborts with
\* ENotAuthorized), and no two live profiles share a non-empty username.
C19_DuplicateUsernameAbortsUnlessBlocked ==
  /\ [][\A fn \in CreateFunctions, sender \in Addresses, username \in Usernames, bio \in Bios :
          (/\ Len(username) > 0
           /\ username \in DOMAIN registry.profiles
           /\ Create(fn, sender, username, "Alice", bio, "https://w.example/0"))
          => /\ lastTx' = IF sender \in registry.blocked_users
                          THEN Abort(fn, ENotAuthorized)
                          ELSE Abort(fn, EUsernameAlreadyTaken)
             /\ UNCHANGED <<registry, profiles, nfts>>]_vars
  /\ []UsernamesAreUnique

\* the latest transaction is a create that aborted with EUsernameAlreadyTaken
\* on the registered, not blocked, username of a live profile
C19_Witness ==
  /\ lastTx.fn \in CreateFunctions
  /\ lastTx = Abort(lastTx.fn, EUsernameAlreadyTaken)
  /\ "alice" \in DOMAIN registry.profiles
  /\ "alice" \notin registry.blocked_usernames
  /\ \E id \in DOMAIN profiles : profiles[id].username = "alice"

\* the owner-gated mutators C20 lists
ListedMutators == OwnerGated \ {"update_profile_picture_nft"}

\* C20: each of the listed owner-gated mutators aborts with ENotAuthorized
\* when the sender of the transaction is not profile.owner, and the profile
\* is left unchanged.
C20_NonOwnerMutationAborts ==
  [][\A c \in MutatorCalls, sender \in Addresses, id \in 1..MaxProfiles :
       (/\ id \in DOMAIN profiles
        /\ c.fn \in ListedMutators
        /\ sender # profiles[id].owner
        /\ Mutate(c, sender, id))
       => /\ lastTx' = Abort(c.fn, ENotAuthorized)
          /\ profiles' = profiles]_vars

\* the latest transaction is remove_link, aborted with ENotAuthorized, on a
\* profile that has a link and is held by an address that is not its owner
C20_Witness ==
  /\ lastTx = Abort("remove_link", ENotAuthorized)
  /\ \E id \in DOMAIN profiles :
       /\ profiles[id].holder # profiles[id].owner
       /\ Len(profiles[id].links) = 1

\* ------------------------------------------------ Move: track_view
\* the daily_views table with today's entry overwritten by 1
DailyViewsRestarted(daily_views, today) == (today :> 1) @@ daily_views

\* if (table::contains(&analytics.daily_views, today)) *views = *views + 1
\* else table::add(&mut analytics.daily_views, today, 1)
DailyViewsAfter(daily_views, today) ==
  IF today \in DOMAIN daily_views
  THEN [daily_views EXCEPT ![today] = daily_views[today] + 1]
  ELSE (today :> 1) @@ daily_views

\* track_view: it has no assert; the profile is passed by the address that
\* holds the object, its owner or not
track_view(sender, id) ==
  /\ id \in DOMAIN profiles
  /\ sender = profiles[id].holder
  /\ profiles[id].view_count < MaxViews
  /\ profiles' =
       [profiles EXCEPT
          ![id].view_count = profiles[id].view_count + 1,
          ![id].analytics.daily_views =
            DailyViewsAfter(profiles[id].analytics.daily_views, now \div DayMs)]
  /\ lastTx' = Success("track_view")
  /\ UNCHANGED <<storeVars, now, call, failures, chainDown, tz, reportVars, stream, registry,
                 nfts, mutations, socketVars, aggVars>>

\* the chain clock passes to the next day
ChainDay ==
  /\ now < MaxChainDays * DayMs
  /\ now' = now + DayMs
  /\ UNCHANGED <<storeVars, call, failures, chainDown, serviceVars, socketVars, aggVars>>

\* the profiles are created, transferred, updated, viewed and deleted over
\* the days
NextViews ==
  \/ \E sender \in Addresses :
       Create("create_profile", sender, "", "Alice", "bio", "https://w.example/0")
  \/ \E sender \in Addresses, id \in 1..MaxProfiles, recipient \in Addresses :
       transfer_profile(sender, id, recipient)
  \/ \E sender \in Addresses, id \in 1..MaxProfiles : delete_profile(sender, id)
  \/ \E sender \in Addresses, id \in 1..MaxProfiles :
       Mutate([fn |-> "set_walrus_site", site_id |-> "site-1"], sender, id)
  \/ \E sender \in Addresses, id \in 1..MaxProfiles : track_view(sender, id)
  \/ ChainDay

SpecViews == InitChain /\ [][NextViews]_vars

\* the sum of the entries of a daily_views table
DailyViewsSum(daily_views) == SetSum(DOMAIN daily_views, daily_views)

\* C21: track_view, called by any sender, increases view_count by exactly 1
\* and the daily_views counter of the current day by exactly 1, so that
\* after any sequence of operations view_count equals the sum of all
\* daily_views entries.
C21_ViewCountIsSumOfDailyViews ==
  /\ [][\A sender \in Addresses, id \in 1..MaxProfiles :
          track_view(sender, id)
          => LET today == now \div DayMs
                 before == profiles[id].analytics.daily_views
                 after == profiles'[id].analytics.daily_views
             IN /\ profiles'[id].view_count = profiles[id].view_count + 1
                /\ today \in DOMAIN after
                /\ after[today] = (IF today \in DOMAIN before THEN before[today] ELSE 0) + 1
                /\ \A day \in DOMAIN before \ {today} :
                     day \in DOMAIN after /\ after[day] = before[day]]_vars
  /\ [](\A id \in DOMAIN profiles :
          profiles[id].view_count = DailyViewsSum(profiles[id].analytics.daily_views))

\* a profile held by an address that is not its owner has been viewed twice
\* on the same day
C21_Witness ==
  \E id \in DOMAIN profiles :
    /\ profiles[id].holder # profiles[id].owner
    /\ profiles[id].view_count = 2
    /\ DOMAIN profiles[id].analytics.daily_views = {1}
    /\ lastTx = Success("track_view")

\* ------------------------------------------------ sessions of a visit
\* the events of a visit are tracked one at a time, the clock passing
\* between them
NextVisit ==
  \/ \E d \in SessionRequests, drift \in ClockDrift :
       /\ Cardinality(profileView) + Cardinality(linkClick) < MaxVisitEvents
       /\ TrackSession(d, drift)
  \/ \E dt \in {999} : Tick(dt)

SpecVisit == InitSession /\ [][NextVisit]_vars

\* the events recorded with a sessionId
EventsOf(rows, sid) == Cardinality({ r \in rows : r.sessionId = sid })

\* C22: executed one at a time without store failures, the first event of a
\* new sessionId creates a Session with (pageViews 1, linkClicks 0) for a
\* view or (0, 1) for a click and endTime unset; every later event on that
\* sessionId increments exactly the matching counter by 1, leaves the other
\* unchanged and sets endTime and duration; so two views and one click on
\* session S end with pageViews = 2, linkClicks = 1.
C22_SessionCountsItsEvents ==
  /\ [][\A d \in SessionRequests, drift \in ClockDrift :
          TrackSession(d, drift)
          => LET sid == ResolveSessionId(d.sessionId, nextId)
                 views == IF d.kind = "click" THEN 0 ELSE 1
                 clicks == IF d.kind = "click" THEN 1 ELSE 0
             IN /\ sid \in DOMAIN session'
                /\ IF sid \in DOMAIN session
                   THEN /\ session'[sid].pageViews = session[sid].pageViews + views
                        /\ session'[sid].linkClicks = session[sid].linkClicks + clicks
                        /\ session'[sid].endTime # NoTime
                        /\ session'[sid].duration # NoTime
                   ELSE /\ session'[sid].pageViews = views
                        /\ session'[sid].linkClicks = clicks
                        /\ session'[sid].endTime = NoTime]_vars
  /\ [](\A sid \in DOMAIN session :
          /\ session[sid].pageViews = EventsOf(profileView, sid)
          /\ session[sid].linkClicks = EventsOf(linkClick, sid))

\* two views and one click were tracked on session S
C22_Witness ==
  /\ EventsOf(profileView, "S") = 2
  /\ EventsOf(linkClick, "S") = 1
  /\ session["S"].pageViews = 2
  /\ session["S"].linkClicks = 1
  /\ session["S"].endTime # NoTime

\* ------------------------------------------- rollups of a closed day
MaxRollupEvents == 2

\* POST /batch/views with one view, served alone: batchTrackViews checks no
\* profile on the chain and writes the raw row only
BatchAlone(ev) ==
  /\ profileView' = profileView \cup BatchRows(BatchRequest(<<ev>>, "", NULL), nextId, now)
  /\ nextId' = nextId + 2
  /\ aggRuns' = 0
  /\ aggDays' = aggDays \ {StartOfDay(IF ev.timestamp = NoTime THEN now ELSE ev.timestamp)}
  /\ UNCHANGED <<linkClick, session, rollupVars, now, call, failures, chainDown,
                 serviceVars, socketVars>>

\* the requests of a day to be rolled up: visitors of two towns of the same
\* name, a link whose title was edited during the day, a click that carries
\* yesterday's timestamp, a referrer with a hyphen
RollupRequests ==
  { ViewRequest("P1", "S", "ip-il", "ua-laptop", RefGoogle, NoTime),
    ViewRequest("P1", "S", "ip-ma", "ua-laptop", RefGoogle, NoTime),
    ClickRequest("P1", 0, "Home", "https://a.example", "S", "ip-il", "ua-laptop",
                 RefGoogle, NoTime),
    ClickRequest("P1", 0, "Start", "https://a.example", "S", "ip-il", "ua-laptop",
                 RefGoogle, NoTime),
    ClickRequest("P1", 0, "Home", "https://a.example", "S", "", NULL, "a-b", NoTime) }
  \cup
  IF now >= DayMs
  THEN { ClickRequest("P1", 0, "Home", "https://a.example", "S", "", NULL, NULL,
                      StartOfDay(now) - DayMs) }
  ELSE {}

\* the views of the batch route: any string is taken as a profileId
RollupBatchEvents ==
  { [profileId |-> "P1-a", sessionId |-> NULL, referrer |-> "b", timestamp |-> NoTime] }

RollupProfiles == {"P1", "P1-a"}

NextRollup ==
  \/ \E d \in RollupRequests :
       /\ Cardinality(profileView) + Cardinality(linkClick) < MaxRollupEvents
       /\ TrackAlone(d)
  \/ \E ev \in RollupBatchEvents :
       /\ Cardinality(profileView) + Cardinality(linkClick) < MaxRollupEvents
       /\ BatchAlone(ev)
  \/ NextDay
  \/ RunAggregator

SpecRollup == InitAgg /\ [][NextRollup]_vars

\* the raw rows of a profile on the day that starts at `day`
RawOfDay(rows, profileId, day) ==
  { r \in InDay(rows, day, day + DayMs) : r.profileId = profileId }

\* C23: after an Aggregator run for day D, a DailyStats(profile, D) row
\* exists for every profile with at least one ProfileView or LinkClick in
\* [D, D+1), click-only profiles included, and its views and clicks are the
\* raw counts of the day.
C23_EveryActiveProfileHasItsDailyRow ==
  \A day \in aggDays, pr \in RollupProfiles :
    RawOfDay(profileView, pr, day) \cup RawOfDay(linkClick, pr, day) # {} =>
      /\ <<pr, day>> \in DOMAIN dailyStats
      /\ dailyStats[<<pr, day>>].views = Cardinality(RawOfDay(profileView, pr, day))
      /\ dailyStats[<<pr, day>>].clicks = Cardinality(RawOfDay(linkClick, pr, day))

\* C24: after a run for day D, for every (profileId, linkIndex) with clicks
\* in D the LinkStats(profileId, linkIndex, D) row has clicks = the number of
\* LinkClick rows of D with that profileId and linkIndex, also when the
\* clicks on one linkIndex carry different linkTitle or linkUrl values.
C24_LinkRowCountsAllClicksOfTheLink ==
  \A day \in aggDays, pr \in RollupProfiles, idx \in LinkIndexes :
    LET clicks == { r \in RawOfDay(linkClick, pr, day) : r.linkIndex = idx }
    IN clicks # {} =>
         /\ <<pr, idx, day>> \in DOMAIN linkStats
         /\ linkStats[<<pr, idx, day>>].clicks = Cardinality(clicks)

\* C25: after a run for day D no GeoStats row has a null country, and for
\* each profile the views of its GeoStats rows of D sum to the number of
\* ProfileView rows of D that have a country, also when two views share
\* country and city but differ in region.
C25_GeoViewsSumToLocatedViews ==
  /\ \A r \in geoStats : r.country # NULL
  /\ \A day \in aggDays, pr \in RollupProfiles :
       LET rows == { r \in geoStats : r.profileId = pr /\ r.date = day }
       IN SetSum(rows, [r \in rows |-> r.views])
            = Cardinality({ r \in RawOfDay(profileView, pr, day) : r.country # NULL })

\* the LinkClick rows of a day that agree with a rollup row on the fields
\* `fields`
ClicksWithKey(row, fields) ==
  Cardinality({ r \in RawOfDay(linkClick, row.profileId, row.date) :
                  \A f \in fields : r[f] = row[f] })

\* C26: for every GeoStats, DeviceStats and ReferrerStats row written for
\* day D, clicks is the number of LinkClick rows of D whose profileId and
\* dimension fields equal the row's (0 when there is none): the clicks of one
\* key are never attributed to another key, whatever strings profileId and
\* the dimensions are.
C26_RollupClicksBelongToTheirKey ==
  /\ \A r \in geoStats :
       r.date \in aggDays => r.clicks = ClicksWithKey(r, {"country", "city", "region"})
  /\ \A r \in deviceStats :
       r.date \in aggDays => r.clicks = ClicksWithKey(r, {"deviceType", "browser", "os"})
  /\ \A k \in DOMAIN referrerStats :
       k[3] \in aggDays =>
         referrerStats[k].clicks
           = Cardinality({ r \in RawOfDay(linkClick, k[1], k[3]) : r.referrer = k[2] })

\* the sessions of a profile that started on the day that starts at `day`
SessionsOfDay(profileId, day) ==
  { x \in DOMAIN session :
      /\ session[x].profileId = profileId
      /\ day <= session[x].startTime
      /\ session[x].startTime < day + DayMs }

\* C27: the bounceRate the Aggregator writes to DailyStats is
\* 100 * B / sessions, B being the sessions of the day with exactly one page
\* view and no clicks, and 0 when the day has no session.
C27_BounceRateCountsBounces ==
  [][aggRuns' = aggRuns + 1 =>
       \A pr \in RollupProfiles :
         LET day == StartOfDay(now) - DayMs
             sessions == SessionsOfDay(pr, day)
             B == Cardinality({ x \in sessions :
                                  session[x].pageViews = 1 /\ session[x].linkClicks = 0 })
         IN RawOfDay(profileView, pr, day) # {} =>
              /\ <<pr, day>> \in DOMAIN dailyStats'
              /\ dailyStats'[<<pr, day>>].bounceRate.den # 0
              /\ IF sessions = {} THEN dailyStats'[<<pr, day>>].bounceRate.num = 0
                 ELSE dailyStats'[<<pr, day>>].bounceRate.num * Cardinality(sessions)
                        = 100 * B * dailyStats'[<<pr, day>>].bounceRate.den]_vars

\* ------------------------------------------------ series of a report
MaxSeriesEvents == 2

\* the milliseconds of an hour
HourMs == DayMs \div 24

\* DATE_TRUNC(period, timestamp) of the periods 'hour' and 'day'
DateTrunc(period, t) == IF period = "hour" THEN t - (t % HourMs) ELSE UtcMidnight(t)

\* SELECT DATE_TRUNC(period, timestamp) AS date, COUNT(*) ... GROUP BY 1
\* ORDER BY date: the buckets of the rows with their counts, ascending
RECURSIVE BucketCounts(_, _)
BucketCounts(rows, period) ==
  IF rows = {} THEN <<>>
  ELSE LET last == CHOOSE b \in { DateTrunc(period, r.timestamp) : r \in rows } :
                     \A r \in rows : DateTrunc(period, r.timestamp) <= b
           inLast == { r \in rows : DateTrunc(period, r.timestamp) = last }
       IN Append(BucketCounts(rows \ inLast, period),
                 [date |-> last, count |-> Cardinality(inLast)])

\* moment(item.date).format('YYYY-MM-DD'): the name of the day of a bucket
FormatDay(date) == "day-" \o ToString(date \div DayMs)

\* moment(item.date).format(getDateFormat(period)): 'YYYY-MM-DD HH:00' of
\* the period 'hour', 'YYYY-MM-DD' of the period 'day'
FormatDate(date, period) ==
  IF period = "hour"
  THEN FormatDay(date) \o " " \o ToString((date % DayMs) \div HourMs) \o ":00"
  ELSE FormatDay(date)

\* dataMap.set(key, value): a Map keeps its keys in the order in which they
\* were first inserted
MapSet(dataMap, key, value) ==
  IF \E i \in DOMAIN dataMap : dataMap[i].date = key
  THEN [i \in DOMAIN dataMap |->
          IF dataMap[i].date = key
          THEN [date |-> key, views |-> value.views, clicks |-> value.clicks]
          ELSE dataMap[i]]
  ELSE Append(dataMap, [date |-> key, views |-> value.views, clicks |-> value.clicks])

\* dataMap.get(key) || { views: 0, clicks: 0 }
MapGetOrZero(dataMap, key) ==
  IF \E i \in DOMAIN dataMap : dataMap[i].date = key
  THEN LET i == CHOOSE j \in DOMAIN dataMap : dataMap[j].date = key
       IN [views |-> dataMap[i].views, clicks |-> dataMap[i].clicks]
  ELSE [views |-> 0, clicks |-> 0]

\* viewData.forEach(item => dataMap.set(dateStr, { views, clicks: 0 }))
RECURSIVE MergeViews(_, _, _, _)
MergeViews(dataMap, viewData, i, period) ==
  IF i > Len(viewData) THEN dataMap
  ELSE MergeViews(MapSet(dataMap, FormatDate(viewData[i].date, period),
                         [views |-> viewData[i].count, clicks |-> 0]),
                  viewData, i + 1, period)

\* clickData.forEach(item => dataMap.set(dateStr, { ...existing, clicks }))
RECURSIVE MergeClicks(_, _, _, _)
MergeClicks(dataMap, clickData, i, period) ==
  IF i > Len(clickData) THEN dataMap
  ELSE LET dateStr == FormatDate(clickData[i].date, period)
           existing == MapGetOrZero(dataMap, dateStr)
       IN MergeClicks(MapSet(dataMap, dateStr,
                             [views |-> existing.views, clicks |-> clickData[i].count]),
                      clickData, i + 1, period)

\* AnalyticsService.getTimeSeriesData: Array.from(dataMap.entries())
getTimeSeriesData(profileId, start, end, period) ==
  LET viewData == BucketCounts(InRange(profileView, profileId, start, end), period)
      clickData == BucketCounts(InRange(linkClick, profileId, start, end), period)
  IN MergeClicks(MergeViews(<<>>, viewData, 1, period), clickData, 1, period)

\* the groups of linkClick.groupBy(['linkIndex', 'linkTitle', 'linkUrl'])
LinkDataGroups(profileId, start, end) ==
  { [linkIndex |-> r.linkIndex, linkTitle |-> r.linkTitle, linkUrl |-> r.linkUrl]
      : r \in InRange(linkClick, profileId, start, end) }

\* orderBy _count.id desc: the orders in which the groups may be returned
LinkDataOrders(profileId, start, end) ==
  { f \in Perms(LinkDataGroups(profileId, start, end)) :
      \A i, j \in DOMAIN f :
        i < j => GroupCount(InRange(linkClick, profileId, start, end), f[i])
                   >= GroupCount(InRange(linkClick, profileId, start, end), f[j]) }

\* AnalyticsService.getLinkPerformance, linkData being the answer of the
\* groupBy query
getLinkPerformance(linkData, profileId, start, end) ==
  LET clicks == InRange(linkClick, profileId, start, end)
      totalViews == Cardinality(InRange(profileView, profileId, start, end))
  IN [i \in DOMAIN linkData |->
        [title |-> OrElse(linkData[i].linkTitle, "Untitled"),
         url |-> OrElse(linkData[i].linkUrl, ""),
         clicks |-> GroupCount(clicks, linkData[i]),
         uniqueClicks |->
           DistinctSessions({ r \in clicks : r.linkIndex = linkData[i].linkIndex }),
         ctr |-> IF totalViews > 0
                 THEN Ratio(GroupCount(clicks, linkData[i]) * 100, totalViews)
                 ELSE Ratio(0, 1)]]

\* linkPerformance.reduce((max, link) => link.clicks > max.clicks ? link : max)
RECURSIVE ReduceMax(_, _, _)
ReduceMax(linkPerformance, max, i) ==
  IF i > Len(linkPerformance) THEN max
  ELSE ReduceMax(linkPerformance,
                 IF linkPerformance[i].clicks > max.clicks THEN linkPerformance[i] ELSE max,
                 i + 1)

\* topLink of getProfileAnalytics: null (the empty sequence) when no link
\* was clicked
TopLink(linkPerformance) ==
  IF Len(linkPerformance) > 0
  THEN LET topLink == ReduceMax(linkPerformance, linkPerformance[1], 2)
       IN <<[title |-> topLink.title, url |-> topLink.url, clicks |-> topLink.clicks]>>
  ELSE <<>>

\* getProfileAnalytics on a cache miss, no ingest call being in flight: the
\* time series and the link performance of the report
BuildSeries(profileId, start, end) ==
  /\ Len(report) < MaxReports
  /\ \E linkData \in LinkDataOrders(profileId, start, end) :
       report' = Append(report,
         [IdleReport EXCEPT
            !.pc = "done", !.profileId = profileId, !.start = start, !.end = end,
            !.outcome = "returned",
            !.results = [linkData |-> linkData],
            !.data =
              [timeSeriesData |-> getTimeSeriesData(profileId, start, end, "day"),
               linkPerformance |-> getLinkPerformance(linkData, profileId, start, end),
               topLink |-> TopLink(getLinkPerformance(linkData, profileId, start, end))]])
  /\ UNCHANGED <<storeVars, now, call, failures, chainDown, cache, socketVars, aggVars, tz,
                 stream, chainVars>>

\* a view and clicks on a link whose title is edited between two visits
SeriesRequests ==
  { ViewRequest("P1", "S", "ip-city", "ua-laptop", RefGoogle, NoTime),
    ClickRequest("P1", 0, "Home", "https://a.example", "S", "ip-city", "ua-laptop",
                 RefGoogle, NoTime),
    ClickRequest("P1", 0, "Start", "https://a.example", NULL, "ip-city", "ua-laptop",
                 RefGoogle, NoTime) }

\* the time ranges of the reports: day 0, and every day of the run
SeriesRanges == { <<0, DayMs - 1>>, <<0, (MaxDay + 1) * DayMs - 1>> }

NextSeries ==
  \/ \E d \in SeriesRequests :
       /\ Cardinality(profileView) + Cardinality(linkClick) < MaxSeriesEvents
       /\ TrackAlone(d)
  \/ NextDay
  \/ \E profileId \in Profiles, range \in SeriesRanges :
       BuildSeries(profileId, range[1], range[2])

SpecSeries == InitReport /\ [][NextSeries]_vars

\* the names of the day buckets of a set of instants, in ascending order
RECURSIVE SortedDays(_)
SortedDays(instants) ==
  IF instants = {} THEN <<>>
  ELSE LET last == CHOOSE b \in { UtcMidnight(t) : t \in instants } :
                     \A t \in instants : UtcMidnight(t) <= b
       IN Append(SortedDays({ t \in instants : UtcMidnight(t) # last }), FormatDay(last))

\* C28: timeSeriesData of a report has exactly one entry per period bucket
\* with at least one view or click in the range, in the chronological order
\* of the buckets, also for buckets with clicks and no views.
C28_SeriesIsChronological ==
  [][Len(report') = Len(report) + 1 =>
       LET c == report'[Len(report')]
           instants ==
             { r.timestamp : r \in InRange(profileView, c.profileId, c.start, c.end) }
               \cup { r.timestamp : r \in InRange(linkClick, c.profileId, c.start, c.end) }
       IN [i \in DOMAIN c.data.timeSeriesData |-> c.data.timeSeriesData[i].date]
            = SortedDays(instants)]_vars

\* C29: in every report each linkPerformance entry, one per group
\* (linkIndex, linkTitle, linkUrl), has uniqueClicks = the number of distinct
\* non-null sessionIds among the clicks of its group, hence uniqueClicks <=
\* clicks; the entries are in the order of descending clicks; topLink is an
\* entry with the most clicks, and null when there are no clicks.
C29_LinkEntriesCountTheirOwnSessions ==
  [][Len(report') = Len(report) + 1 =>
       LET c == report'[Len(report')]
           entries == c.data.linkPerformance
           clicks == InRange(linkClick, c.profileId, c.start, c.end)
       IN /\ \A i \in DOMAIN entries :
               /\ entries[i].uniqueClicks
                    = DistinctSessions({ r \in clicks :
                        \A f \in DOMAIN c.results.linkData[i] :
                          r[f] = c.results.linkData[i][f] })
               /\ entries[i].uniqueClicks <= entries[i].clicks
          /\ \A i, j \in DOMAIN entries : i < j => entries[i].clicks >= entries[j].clicks
          /\ IF clicks = {} THEN c.data.topLink = <<>>
             ELSE /\ Len(c.data.topLink) = 1
                  /\ \E i \in DOMAIN entries :
                       /\ entries[i].title = c.data.topLink[1].title
                       /\ entries[i].url = c.data.topLink[1].url
                       /\ entries[i].clicks = c.data.topLink[1].clicks
                  /\ \A i \in DOMAIN entries :
                       entries[i].clicks <= c.data.topLink[1].clicks]_vars

\* --------------------------------------------- live rows of LinkStats
\* C30: trackLinkClick on a (profileId, linkIndex, today) key without a
\* LinkStats row creates one with clicks = 1, uniqueClicks = 0 and the
\* event's linkTitle and linkUrl; on an existing row it increments clicks by
\* 1 and leaves linkTitle, linkUrl, uniqueClicks and ctr unchanged, even when
\* the event carries a different title or url.
C30_LiveLinkStatsKeepTheirTitle ==
  [][\A d \in RollupRequests :
       (d.kind = "click" /\ TrackAlone(d)) =>
         LET key == <<d.profileId, d.linkIndex, StartOfDay(now)>>
         IN /\ key \in DOMAIN linkStats'
            /\ IF key \in DOMAIN linkStats
               THEN /\ linkStats'[key].clicks = linkStats[key].clicks + 1
                    /\ linkStats'[key].linkTitle = linkStats[key].linkTitle
                    /\ linkStats'[key].linkUrl = linkStats[key].linkUrl
                    /\ linkStats'[key].uniqueClicks = linkStats[key].uniqueClicks
                    /\ linkStats'[key].ctr = linkStats[key].ctr
               ELSE /\ linkStats'[key].clicks = 1
                    /\ linkStats'[key].uniqueClicks = 0
                    /\ linkStats'[key].linkTitle = OrEmpty(d.linkTitle)
                    /\ linkStats'[key].linkUrl = OrEmpty(d.linkUrl)
            /\ \A k \in DOMAIN linkStats \ {key} : linkStats'[k] = linkStats[k]]_vars

\* the row of today was created by a click titled "Home" and then counted a
\* click on the same link titled "Start"
C30_Witness ==
  \E k \in DOMAIN linkStats :
    /\ k[3] = StartOfDay(now)
    /\ linkStats[k].clicks = 2
    /\ linkStats[k].linkTitle = "Home"
    /\ \E r \in linkClick :
         /\ r.linkTitle = "Start"
         /\ r.linkIndex = k[2]
         /\ StartOfDay(r.timestamp) = k[3]

\* ------------------------------------------------- the report cache
\* number of getProfileAnalytics calls in a run of the cache
MaxCacheReports == 2

\* the readings of the clock at which the calls of a run are made: a
\* second, the last millisecond of an entry set at 0, its time of expiry
CacheInstants == {MsPerSecond, CacheTtl * MsPerSecond - 1, CacheTtl * MsPerSecond}

CacheTick(t) ==
  /\ now < t
  /\ now' = t
  /\ UNCHANGED <<storeVars, call, failures, chainDown, serviceVars, socketVars, aggVars>>

\* number of events ingested in a run of the cache
MaxCacheEvents == 2

\* getProfileAnalytics served alone, no store query failing: the answer of
\* cacheService.get (null when Redis fails: getOk), on a miss the report of
\* the rows the Store holds now and cacheService.set with the time to live
ReportAlone(profileId, start, end, getOk) ==
  LET key == CacheKey(profileId, start, end)
      c == [IdleReport EXCEPT !.pc = "done", !.profileId = profileId, !.start = start,
                              !.end = end, !.outcome = "returned",
                              !.cacheErrors = IF getOk THEN {} ELSE {"get"}]
      results == [q \in Queries |-> QueryResult(q, profileId, start, end)]
  IN /\ Len(report) < MaxCacheReports
     /\ IF getOk /\ Cached(key)
        THEN /\ report' = Append(report, [c EXCEPT !.data = cache[key].value])
             /\ UNCHANGED cache
        ELSE /\ report' = Append(report, [c EXCEPT !.results = results,
                                                   !.data = AnalyticsData(results)])
             /\ cache' = (key :> SetEx(AnalyticsData(results), CacheTtl)) @@ cache
     /\ UNCHANGED <<storeVars, now, call, failures, chainDown, socketVars, aggVars, tz,
                    stream, chainVars>>

NextCache ==
  \/ \E d \in ReportRequests :
       /\ Cardinality(profileView) + Cardinality(linkClick) < MaxCacheEvents
       /\ TrackAlone(d)
  \/ \E profileId \in Profiles, range \in ReportRanges, getOk \in BOOLEAN :
       ReportAlone(profileId, range[1], range[2], getOk)
  \/ \E t \in CacheInstants : CacheTick(t)

SpecCache == InitReport /\ [][NextCache]_vars

\* C31: getProfileAnalytics on a cache miss computes the report from the
\* store and stores it under the key of (profileId, start ms, end ms) with
\* the time to live analytics.cacheTtl; a later call with the same profileId
\* and bounds before the expiry returns exactly the stored report without
\* reading the raw tables, even if events of the range were ingested in
\* between.
C31_CachedReportIsReturnedUntilExpiry ==
  [][\A profileId \in Profiles, range \in ReportRanges :
       ReportAlone(profileId, range[1], range[2], TRUE) =>
         LET key == CacheKey(profileId, range[1], range[2])
             c == report'[Len(report')]
         IN IF key \in DOMAIN cache /\ now < cache[key].expires
            THEN /\ c.data = cache[key].value
                 /\ c.results = <<>>
                 /\ cache' = cache
            ELSE /\ c.data = ReportOfStore(profileId, range[1], range[2])
                 /\ key \in DOMAIN cache'
                 /\ cache'[key].value = c.data
                 /\ cache'[key].expires = now + CacheTtl * MsPerSecond]_vars

\* a report computed on the empty store was returned again, in the last
\* millisecond of its entry, after a view of the range had been ingested
C31_Witness ==
  /\ Len(report) = 2
  /\ report[2].results = <<>>
  /\ report[2].data = report[1].data
  /\ report[2].data.profileViews = 0
  /\ Cardinality(profileView) = 1
  /\ now = CacheTtl * MsPerSecond - 1

\* ------------------------------------------- cleanup of the sessions
\* the sessions findMany returns to cleanupOrphanedSessions
OrphanedSessions ==
  { sid \in DOMAIN session :
      session[sid].startTime < now - DayMs /\ session[sid].endTime = NoTime }

\* cleanupOrphanedSessions in which the update of the sessions `failing`
\* throws: the for loop lies inside the one try block, so the first throw
\* ends it; `order` is the order of the rows findMany returns
cleanupOrphanedSessionsCatching(order, failing) ==
  LET cutoffDate == now - DayMs
      bad == { i \in DOMAIN order : order[i] \in failing }
      reached == IF bad = {} THEN DOMAIN order
                 ELSE { i \in DOMAIN order : \A j \in bad : i < j }
      updated == { order[i] : i \in reached }
  IN /\ failing # {} => MayFail
     /\ failures' = IF failing = {} THEN failures ELSE failures + 1
     /\ session' =
          [sid \in DOMAIN session |->
             IF sid \in updated
             THEN [session[sid] EXCEPT
                     !.endTime = cutoffDate,
                     !.duration = (cutoffDate - session[sid].startTime) \div MsPerSecond]
             ELSE session[sid]]
     /\ UNCHANGED <<profileView, linkClick, rollupVars, nextId, now, call,
                    chainDown, serviceVars, socketVars, aggVars>>

\* the runs of the job: the order of findMany and the update that throws
CleanupRuns ==
  { <<order, failing>> \in Perms(OrphanedSessions) \X SUBSET OrphanedSessions :
      Cardinality(failing) <= 1 }

NextOrphans ==
  \/ \E d \in SessionRequests :
       /\ Cardinality(profileView) + Cardinality(linkClick) < MaxSessionEvents
       /\ TrackSession(d, 0)
  \/ \E sessionId \in DOMAIN session : endSession(sessionId, 0)
  \/ \E run \in CleanupRuns : cleanupOrphanedSessionsCatching(run[1], run[2])
  \/ \E dt \in ClockSteps : Tick(dt)

SpecOrphans == InitSession /\ [][NextOrphans]_vars

\* C32: cleanupOrphanedSessions sets endTime = now - 24 h and duration =
\* endTime - startTime on exactly the sessions with endTime unset and
\* startTime < now - 24 h; every other session, and the pageViews and
\* linkClicks of the closed sessions, are unchanged; if one session update
\* fails, the remaining orphans are still closed.
C32_CleanupClosesEveryOtherOrphan ==
  [][\A run \in CleanupRuns :
       cleanupOrphanedSessionsCatching(run[1], run[2]) =>
         /\ DOMAIN session' = DOMAIN session
         /\ \A sid \in DOMAIN session :
              IF sid \in OrphanedSessions
              THEN /\ session'[sid].pageViews = session[sid].pageViews
                   /\ session'[sid].linkClicks = session[sid].linkClicks
                   /\ session'[sid].startTime = session[sid].startTime
                   /\ sid \notin run[2] =>
                        /\ session'[sid].endTime = now - DayMs
                        /\ session'[sid].duration =
                             (now - DayMs - session[sid].startTime) \div MsPerSecond
              ELSE session'[sid] = session[sid]]_vars

\* ------------------------------------------------ names of referrers
\* number of events ingested in a run of the referrers
MaxReferrerEvents == 2

\* the views of a day, each arriving from another page
ReferrerRequests ==
  { ViewRequest("P1", NULL, "", NULL, referrer, NoTime)
      : referrer \in {RefGoogle, RefTwitter, RefBlog, RefShared, RefBing, RefDirect} }

NextReferrer ==
  \/ \E d \in ReferrerRequests :
       /\ Cardinality(profileView) + Cardinality(linkClick) < MaxReferrerEvents
       /\ TrackAlone(d)
  \/ NextDay
  \/ RunAggregator
  \/ \E profileId \in Profiles, range \in ReportRanges, getOk \in BOOLEAN :
       ReportAlone(profileId, range[1], range[2], getOk)

SpecReferrer == InitReport /\ [][NextReferrer]_vars

\* what the rules give for the referrers of the requests: the type by the
\* first rule that matches, the name the reports show
ReferrerExamples ==
  (RefGoogle :> [type |-> "search", name |-> "www.google.com"])
    @@ (RefBing :> [type |-> "search", name |-> "www.bing.com"])
    @@ (RefShared :> [type |-> "search", name |-> "twitter.com"])
    @@ (RefTwitter :> [type |-> "social", name |-> "twitter.com"])
    @@ (RefDirect :> [type |-> "direct", name |-> "Direct"])
    @@ (RefBlog :> [type |-> "other", name |-> "blog.example"])

\* C33: the Aggregator classifies each ReferrerStats row by the first
\* matching rule in the order search (contains google, bing or yahoo),
\* social (contains facebook, twitter, instagram or linkedin), direct (the
\* empty string or the literal direct), other; the stored referrer key is
\* the full original string, while the report shows the hostname when the
\* referrer parses as a URL and the unchanged string otherwise.
C33_ReferrersAreClassifiedAndNamed ==
  /\ \A k \in DOMAIN referrerStats :
       /\ \E r \in profileView : r.referrer = k[2]
       /\ referrerStats[k].referrerType = ReferrerExamples[k[2]].type
  /\ \A i \in DOMAIN report :
       \A k \in DOMAIN report[i].data.referrerData :
         /\ \E r \in profileView : r.referrer = k
         /\ report[i].data.referrerData[k].referrer = ReferrerExamples[k].name

\* a view that came from a page of twitter.com whose address contains
\* "google" was rolled up as a search referrer and reported by its hostname
C33_Witness ==
  /\ \E k \in DOMAIN referrerStats :
       k[2] = RefShared /\ referrerStats[k].referrerType = "search"
  /\ \E i \in DOMAIN report :
       /\ RefShared \in DOMAIN report[i].data.referrerData
       /\ report[i].data.referrerData[RefShared].referrer = "twitter.com"

\* ------------------------------------------ Move: transfer_profile
\* C34: after transfer_profile(profile, recipient) the recipient is the
\* owner of the profile: get_owner returns the recipient, and the recipient
\* can call the owner-gated mutators and delete_profile on it without
\* aborting with ENotAuthorized.
C34_RecipientOwnsTransferredProfile ==
  /\ \A id \in DOMAIN profiles : profiles[id].owner = profiles[id].holder
  /\ ~ ( /\ lastTx.fn \in OwnerGated \cup {"delete_profile"}
         /\ lastTx.status = "abort"
         /\ lastTx.code = ENotAuthorized )

\* ------------------------------------- Realtime: subscribe, step by step
\* C36: whenever the server answers a subscribe:profile P with an error of
\* code SUBSCRIPTION_ERROR, the socket is not left subscribed to P.
C36_FailedSubscribeLeavesNoSubscription ==
  [][\A s \in Sockets, profileId \in Profiles, outcome \in ChainOutcomes, ok \in BOOLEAN :
       (/\ Subscribe(s, profileId, outcome, ok)
        /\ LastOf(outbox'[s]) = Message("error", NULL, "SUBSCRIPTION_ERROR"))
         => s \notin rooms'[profileId]]_vars

\* the subscribe:profile handler of a socket: where it stands, the profile
\* it was sent, and whether an unsubscribe:profile of that profile or a
\* disconnect of the socket has been handled since it was received
IdleSubscribe == [pc |-> "idle", profileId |-> NULL, left |-> FALSE]

\* subscribe:profile arrives; the handler awaits suiService.profileExists
SubscribeReceived(s, profileId) ==
  /\ s \in DOMAIN connectedClients
  /\ call[s].pc = "idle"
  /\ call' = [call EXCEPT ![s] = [pc |-> "probing", profileId |-> profileId, left |-> FALSE]]
  /\ UNCHANGED <<storeVars, now, failures, chainDown, serviceVars, socketVars, aggVars>>

\* profileExists has settled: the error, or socket.join, the client data
\* if the socket still has some, and the await of getRealTimeAnalytics. A
\* socket that has disconnected receives nothing.
SubscribeProbed(s, outcome) ==
  /\ call[s].pc = "probing"
  /\ IF ~profileExists(outcome)
     THEN /\ outbox' = Emit({s} \cap DOMAIN connectedClients,
                            Message("error", NULL, "PROFILE_NOT_FOUND"))
          /\ call' = [call EXCEPT ![s].pc = "done"]
          /\ UNCHANGED <<rooms, connectedClients>>
     ELSE /\ rooms' = [rooms EXCEPT ![call[s].profileId] = @ \cup {s}]
          /\ connectedClients' =
               IF s \in DOMAIN connectedClients
               THEN [connectedClients EXCEPT ![s].profileId = call[s].profileId]
               ELSE connectedClients
          /\ call' = [call EXCEPT ![s].pc = "reading"]
          /\ UNCHANGED outbox
  /\ UNCHANGED <<storeVars, now, failures, chainDown, serviceVars, aggVars>>

\* getRealTimeAnalytics has settled: the first analytics:realtime, or the
\* catch block's SUBSCRIPTION_ERROR
SubscribeAnswered(s, ok) ==
  /\ call[s].pc = "reading"
  /\ outbox' = Emit({s} \cap DOMAIN connectedClients,
                    IF ok THEN Message("analytics:realtime", call[s].profileId, NULL)
                    ELSE Message("error", NULL, "SUBSCRIPTION_ERROR"))
  /\ call' = [call EXCEPT ![s].pc = "done"]
  /\ UNCHANGED <<storeVars, now, failures, chainDown, serviceVars, rooms, connectedClients,
                 aggVars>>

\* unsubscribe:profile handled after the subscribe:profile was received
UnsubscribeAfter(s) ==
  /\ call[s].pc # "idle"
  /\ OnUnsubscribe(s, call[s].profileId)
  /\ call' = [call EXCEPT ![s].left = TRUE]

\* disconnect handled after the subscribe:profile was received
DisconnectAfter(s) ==
  /\ call[s].pc # "idle"
  /\ OnDisconnect(s)
  /\ call' = [call EXCEPT ![s].left = TRUE]

InitSubscribe ==
  /\ InitStore
  /\ InitRest
  /\ call = [s \in Sockets |-> IdleSubscribe]

NextSubscribe ==
  \/ \E s \in Sockets : call[s].pc = "idle" /\ Connect(s)
  \/ \E s \in Sockets, profileId \in Profiles : SubscribeReceived(s, profileId)
  \/ \E s \in Sockets, outcome \in ChainOutcomes : SubscribeProbed(s, outcome)
  \/ \E s \in Sockets, ok \in BOOLEAN : SubscribeAnswered(s, ok)
  \/ \E s \in Sockets : UnsubscribeAfter(s)
  \/ \E s \in Sockets : DisconnectAfter(s)
  \/ \E answers \in SUBSET Profiles : broadcastRealtimeUpdates(answers)

SpecSubscribe == InitSubscribe /\ [][NextSubscribe]_vars

\* the subscribe:profile handler of the socket has completed, and so has an
\* unsubscribe:profile or disconnect handler that came after it
BothCompleted(s) == call[s].pc = "done" /\ call[s].left

\* C35: a socket sends subscribe:profile P and then unsubscribe:profile P
\* (or disconnects). Once both handlers have completed the socket is not a
\* member of the room profile:P and receives no further analytics:realtime
\* broadcast for P, whatever the interleaving with the profile check.
C35_UnsubscribedSocketIsOutOfTheRoom ==
  /\ [](\A s \in Sockets : BothCompleted(s) => s \notin rooms[call[s].profileId])
  /\ [][\A s \in Sockets, answers \in SUBSET Profiles :
          (BothCompleted(s) /\ broadcastRealtimeUpdates(answers))
            => outbox'[s] = outbox[s]]_vars

\* ------------------------------------- the report cache and the period
\* the periods of the time ranges of a run
Periods == {"hour", "day"}

\* getProfileAnalytics that would compute the report at every call
ReportByPeriodUncached(profileId, start, end, period) ==
  LET c == [IdleReport EXCEPT !.pc = "done", !.profileId = profileId, !.start = start,
                              !.end = end, !.outcome = "returned"]
             @@ [period |-> period]
      results == [q \in Queries |-> QueryResult(q, profileId, start, end)]
      analyticsData == AnalyticsData(results)
                         @@ [timeSeriesData |-> getTimeSeriesData(profileId, start, end, period)]
  IN /\ Len(report) < MaxCacheReports
     /\ report' = Append(report, [c EXCEPT !.results = results, !.data = analyticsData])
     /\ cache' = (CacheKey(profileId, start, end) :> SetEx(analyticsData, CacheTtl)) @@ cache
     /\ UNCHANGED <<storeVars, now, call, failures, chainDown, socketVars, aggVars, tz,
                    stream, chainVars>>

\* getProfileAnalytics of a time range with its period, served alone, no
\* query and no cache call failing: the counters and the time series of the
\* report
ReportByPeriod(profileId, start, end, period) ==
  LET key == CacheKey(profileId, start, end)
      c == [IdleReport EXCEPT !.pc = "done", !.profileId = profileId, !.start = start,
                              !.end = end, !.outcome = "returned"]
             @@ [period |-> period]
      results == [q \in Queries |-> QueryResult(q, profileId, start, end)]
      analyticsData == AnalyticsData(results)
                         @@ [timeSeriesData |-> getTimeSeriesData(profileId, start, end, period)]
  IN /\ Len(report) < MaxCacheReports
     /\ IF Cached(key)
        THEN /\ report' = Append(report, [c EXCEPT !.data = cache[key].value])
             /\ UNCHANGED cache
        ELSE /\ report' = Append(report, [c EXCEPT !.results = results,
                                                   !.data = analyticsData])
             /\ cache' = (key :> SetEx(analyticsData, CacheTtl)) @@ cache
     /\ UNCHANGED <<storeVars, now, call, failures, chainDown, socketVars, aggVars, tz,
                    stream, chainVars>>

NextPeriod ==
  \/ \E d \in ReportRequests :
       /\ Cardinality(profileView) + Cardinality(linkClick) < MaxCacheEvents
       /\ TrackAlone(d)
  \/ \E profileId \in Profiles, range \in ReportRanges, period \in Periods :
       ReportByPeriod(profileId, range[1], range[2], period)
  \/ \E t \in CacheInstants : CacheTick(t)

SpecPeriod == InitReport /\ [][NextPeriod]_vars

\* the call of the log that populated the cache entry a later call of the
\* same profile and bounds was served from: the last one before it that
\* computed its report
Populating(profileId, start, end) ==
  CHOOSE i \in DOMAIN report :
    /\ report[i].profileId = profileId /\ report[i].start = start /\ report[i].end = end
    /\ report[i].results # <<>>
    /\ \A j \in DOMAIN report :
         (j > i /\ report[j].profileId = profileId /\ report[j].start = start
                /\ report[j].end = end) => report[j].results = <<>>

\* every entry of the series is named after the bucket, of the period, of
\* a tracked event
BucketedBy(series, period) ==
  \A i \in DOMAIN series :
    \E r \in profileView \cup linkClick :
      series[i].date = FormatDate(DateTrunc(period, r.timestamp), period)

\* C37: the cache key depends on (profileId, start, end) and not on
\* timeRange.period: a call made within the time to live of the report of
\* another call with the same profile and bounds returns that report,
\* whatever its own period, and the timeSeriesData of the report is
\* bucketed by the period of the call that populated the cache.
C37_CachedSeriesKeepsThePopulatingPeriod ==
  [][\A profileId \in Profiles, range \in ReportRanges, period \in Periods :
       ReportByPeriod(profileId, range[1], range[2], period) =>
         LET key == CacheKey(profileId, range[1], range[2])
             c == report'[Len(report')]
         IN IF key \in DOMAIN cache /\ now < cache[key].expires
            THEN LET first == report[Populating(profileId, range[1], range[2])]
                 IN /\ c.data = first.data
                    /\ BucketedBy(c.data.timeSeriesData, first.period)
            ELSE c.data.timeSeriesData
                   = getTimeSeriesData(profileId, range[1], range[2], period)]_vars

\* a report computed by the hour, holding a bucket, was returned to a call
\* that asked for days
C37_Witness ==
  /\ Len(report) = 2
  /\ report[1].period = "hour"
  /\ report[2].period = "day"
  /\ report[2].results = <<>>
  /\ report[2].data = report[1].data
  /\ Len(report[2].data.timeSeriesData) > 0
  /\ BucketedBy(report[2].data.timeSeriesData, "hour")
  /\ ~BucketedBy(report[2].data.timeSeriesData, "day")

\* ------------------------------------------- the active users of a profile
\* 5 * 60 * 1000 and 1 * 60 * 1000
FiveMinutesMs == 300000
OneMinuteMs == 60000

\* the readings of the clock at which the calls of a run are made: around
\* the fifth minute of a session started at 0 or at 1
ActiveInstants == {1, FiveMinutesMs, FiveMinutesMs + 1, FiveMinutesMs + 2}

ActiveTick(t) ==
  /\ now < t
  /\ now' = t
  /\ UNCHANGED <<storeVars, call, failures, chainDown, serviceVars, socketVars, aggVars>>

\* a count of the sessions of the last five minutes that would ignore
\* their endTime
getRealTimeAnalyticsOfAllSessions(profileId) ==
  [activeUsers |->
     Cardinality({ sid \in DOMAIN session :
                     /\ session[sid].profileId = profileId
                     /\ session[sid].startTime >= now - FiveMinutesMs }),
   recentViews |->
     Cardinality({ r \in profileView :
                     r.profileId = profileId /\ r.timestamp >= now - OneMinuteMs }),
   recentClicks |->
     Cardinality({ r \in linkClick :
                     r.profileId = profileId /\ r.timestamp >= now - OneMinuteMs })]

\* AnalyticsService.getRealTimeAnalytics: the three counts on the rows the
\* Store holds now
getRealTimeAnalytics(profileId) ==
  [activeUsers |->
     Cardinality({ sid \in DOMAIN session :
                     /\ session[sid].profileId = profileId
                     /\ session[sid].endTime = NoTime
                     /\ session[sid].startTime >= now - FiveMinutesMs }),
   recentViews |->
     Cardinality({ r \in profileView :
                     r.profileId = profileId /\ r.timestamp >= now - OneMinuteMs }),
   recentClicks |->
     Cardinality({ r \in linkClick :
                     r.profileId = profileId /\ r.timestamp >= now - OneMinuteMs })]

NextActive ==
  \/ \E d \in SessionRequests :
       /\ Cardinality(profileView) + Cardinality(linkClick) < MaxSessionEvents
       /\ TrackSession(d, 0)
  \/ \E sessionId \in DOMAIN session : endSession(sessionId, 0)
  \/ \E t \in ActiveInstants : ActiveTick(t)

SpecActive == InitSession /\ [][NextActive]_vars

\* the events a Session has counted
SessionEvents(row) == row.pageViews + row.linkClicks

C39_RunWritesYesterdayOnly ==
  [][aggRuns' = aggRuns + 1 =>
       LET today == StartOfDay(now)
           yesterday == today - DayMs
       IN /\ DOMAIN dailyStats \subseteq DOMAIN dailyStats'
          /\ DOMAIN linkStats \subseteq DOMAIN linkStats'
          /\ \A k \in WrittenKeys(dailyStats, dailyStats') :
               /\ k[2] = yesterday
               /\ dailyStats'[k].views
                    = Cardinality({ r \in profileView :
                                      /\ r.profileId = k[1]
                                      /\ yesterday <= r.timestamp
                                      /\ r.timestamp < today })
               /\ dailyStats'[k].clicks
                    = Cardinality({ r \in linkClick :
                                      /\ r.profileId = k[1]
                                      /\ yesterday <= r.timestamp
                                      /\ r.timestamp < today })
          /\ \A k \in WrittenKeys(linkStats, linkStats') : k[3] = yesterday
          /\ \A k \in WrittenKeys(referrerStats, referrerStats') : k[3] = yesterday
          /\ \A row \in (geoStats' \ geoStats) \cup (geoStats \ geoStats') :
               row.date = yesterday
          /\ \A row \in (deviceStats' \ deviceStats) \cup (deviceStats \ deviceStats') :
               row.date = yesterday]_vars

\* a run has written the rollups of yesterday, the DailyStats row of the
\* current day standing next to them
C39_Witness ==
  /\ aggRuns >= 1
  /\ \E row \in geoStats : row.date = StartOfDay(now) - DayMs
  /\ \E k \in DOMAIN dailyStats : k[2] = StartOfDay(now) - DayMs
  /\ \E k \in DOMAIN dailyStats : k[2] = StartOfDay(now)

\* ------------------------------------------- Move: the profile counter
\* C40: total_profiles is the number of profiles created, by any of the
\* three create functions, minus the number deleted, that is the number of
\* live profiles, and delete_profile never underflows it.
C40_TotalProfilesCountsLiveProfiles ==
  /\ [](registry.total_profiles = Cardinality(DOMAIN profiles))
  /\ [](lastTx # ArithmeticAbort("delete_profile"))
  /\ [][\A fn \in CreateFunctions, sender \in Addresses, username \in Usernames, bio \in Bios :
          (/\ Create(fn, sender, username, "Alice", bio, "https://w.example/0")
           /\ lastTx' = Success(fn))
            => registry'.total_profiles = registry.total_profiles + 1]_vars
  /\ [][\A sender \in Addresses, id \in 1..MaxProfiles :
          (delete_profile(sender, id) /\ lastTx' = Success("delete_profile"))
            => registry'.total_profiles = registry.total_profiles - 1]_vars
  /\ [][registry'.total_profiles # registry.total_profiles
          => lastTx' \in { Success(fn) : fn \in CreateFunctions \cup {"delete_profile"} }]_vars

\* one of two profiles was deleted: the counter is back at one
C40_Witness ==
  /\ lastTx = Success("delete_profile")
  /\ Cardinality(DOMAIN profiles) = 1
  /\ registry.total_profiles = 1

====
